---- MODULE Spec2Model ----
(***************************************************************************)
(* Funnel session ledger of sosdivorce: the paid_sessions and              *)
(* unpaid_sessions_with_email tables with their message logs, the daily    *)
(* statistics row, and the HTTP handlers that drive them (create-session,  *)
(* the funnel chat, create-payment-intent, verify-payment).  Every awaited *)
(* SQL statement or external call of a handler is one step of the request  *)
(* that runs it, so requests interleave exactly where the code awaits.     *)
(*                                                                         *)
(* Left out of the state: thread_id, questionnaire_data and the wall-clock *)
(* timestamps of the session rows (no modelled statement reads them).      *)
(* created_at of a message row is kept as a logical clock because the      *)
(* message reads ORDER BY it.                                              *)
(*                                                                         *)
(* The free-tier chat (api/chat.js) with its answer cache (chat_cache) is  *)
(* modelled next to the funnel; it shares no table with it.                *)
(* So are the signup (users) and the saved conversations                  *)
(* (conversation_sessions, conversation_messages) of lib/db.js.            *)
(***************************************************************************)
EXTENDS Integers, Sequences, FiniteSets, TLC

\* ------------------------------------------------------------------ bounds

\* Highest number of stored messages of a session's resolved log at which a
\* new funnel chat request is still accepted (concurrent requests, Spec).
MaxLog == 2

\* The same for the single caller of LedgerSpec, where three exchanges
\* (before the email, with the email, after the email) must fit.
MaxLogSeq == 4

\* Number of payment intents the payment processor hands out.
MaxIntents == 2

\* Number of requests the clients of Spec send in all.
MaxRequests == 5

\* Value of a daily counter from which no further request that could
\* increment it is started.
MaxCount == 2

\* Number of calls the callers of FunctionsSpec make in all.
MaxCalls == 5

\* Number of free-tier chat requests the visitors of FreeSpec send in all.
MaxVisits == 3

\* Highest value of the database clock.
MaxClock == 2

\* Highest q_used a visitor's cookie carries.
MaxQUsed == 2

\* Requests of the visitors whose questions are variants of one another.
MaxLookups == 2

\* Highest number of signup requests of a run.
MaxSignups == 4

\* Highest number of conversation sessions created in a run.
MaxSessions == 2

\* Highest number of calls that write to a conversation in a run.
MaxMessages == 4

\* ------------------------------------------------------------------ values

NULL == "NULL"

\* SQL NULL of the integer column payment_intent_id handles.
NoIntent == 0

Procs == {1, 2}

\* The single caller of LedgerSpec.
Caller == 1

UUIDs == {"u1"}

Emails == {"jean@example.com", "j.d@mail.fr"}

\* Visitor messages: one without an email address, one carrying one.
UserMessages == {"j'ai un enfant", "mon mail: jean@example.com"}

AssistantAnswer == "reponse"

\* emailRegex of the funnel chat handler, applied to the visitor messages:
\* the first match, NULL when message.match(emailRegex) is null.
EmailMatch(message) ==
  IF message = "mon mail: jean@example.com" THEN "jean@example.com" ELSE NULL

EXPERTISE_CONFIG == [classique |-> 2900, premium |-> 4900]

Expertises == DOMAIN EXPERTISE_CONFIG

ADMIN_EMAIL == "info.sosdivorce@gmail.com"

PaymentIntents == 1..MaxIntents

\* Question texts, as sequences of characters: an upper-case letter, a
\* lower-case letter and the blank.
Questions ==
  {<<"q", " ", "q">>, <<" ", "Q", " ", " ", "q">>, <<" ">>}

\* The characters \s matches, of those the texts are made of.
Whitespace == {" ", "\t"}

\* More question texts, for the hashing: variants in case, in blanks and tabs
\* around and between the words, of two questions.
Texts ==
  {<<"q">>, <<"Q">>, <<"\t", "q", " ">>,
   <<"q", " ", "q">>, <<"Q", "\t", "q">>, <<"q", " ", "\t", " ", "Q">>,
   <<" ", "q", " ", " ", "q", "\t">>, <<"q", "q">>}

\* const maxAttempts = 60 of the polling loop
maxAttempts == 60

\* Statuses a run of the assistant reports.
RunStatuses ==
  {"queued", "in_progress", "requires_action", "completed", "failed", "cancelled", "expired"}

\* The statuses of line 329, on which the polling loop throws.
FailedStatuses == {"failed", "cancelled", "expired"}

\* What the rate limiter of a request can be: null (Upstash is not
\* configured), or a limiter whose limit call allows, rejects or throws (the
\* backend is unreachable).
RateLimiters == {"unconfigured", "allows", "rejects", "unreachable"}

\* Answers of the chat completion.
Answers == {"r1", "r2"}

\* The free-question limit of line 61.
FreeQuestions == 2

\* INTERVAL '30 days' of expires_at, in ticks of the clock.
CacheTTL == 1

\* String.prototype.toLowerCase
toLowerCase(s) == [i \in 1..Len(s) |-> IF s[i] = "Q" THEN "q" ELSE s[i]]

RECURSIVE trimStart(_)
trimStart(s) == IF s # <<>> /\ Head(s) \in Whitespace THEN trimStart(Tail(s)) ELSE s

RECURSIVE trimEnd(_)
trimEnd(s) ==
  IF s # <<>> /\ s[Len(s)] \in Whitespace
    THEN trimEnd(SubSeq(s, 1, Len(s) - 1))
    ELSE s

\* String.prototype.trim
trim(s) == trimEnd(trimStart(s))

\* Mutant of collapseWhitespace: runs of whitespace are kept as they are.
collapseWhitespace_Keeps(s) == s

\* replace(/\s+/g, ' '): every run of whitespace becomes one blank
RECURSIVE collapseWhitespace(_)
collapseWhitespace(s) ==
  IF s = <<>> THEN s
  ELSE IF Head(s) \in Whitespace THEN <<" ">> \o collapseWhitespace(trimStart(Tail(s)))
  ELSE <<Head(s)>> \o collapseWhitespace(Tail(s))

\* hashQuestion: SHA-256 of the normalized question.  The digest is taken as
\* collision free, so the normalized text stands for it.
hashQuestion(question) == collapseWhitespace(trim(toLowerCase(question)))

\* ------------------------------------------------------------------ state

VARIABLES
  paid_sessions,     \* rows of table paid_sessions
  paid_messages,     \* paid_messages rows per session id, in insertion order
  unpaid_sessions,   \* rows of table unpaid_sessions_with_email
  unpaid_messages,   \* unpaid_messages rows per session id, in insertion order
  session_statistics,\* today's row of session_statistics
  stripe,            \* payment processor: status of each created intent
  outbox,            \* calls made to the email sender, in order
  started,           \* number of requests started so far (counted under Spec)
  req,               \* per request slot: the running handler and its locals
  chat_cache,        \* rows of table chat_cache
  clock,             \* CURRENT_TIMESTAMP of the database
  visit,             \* per request slot: the running free-tier chat request
  users,             \* rows of table users
  conversation_sessions, \* rows of table conversation_sessions
  conversation_sessions_id_seq, \* last value of the SERIAL of its id
  conversation_messages  \* rows of table conversation_messages, in insertion order

vars == <<paid_sessions, paid_messages, unpaid_sessions, unpaid_messages,
          session_statistics, stripe, outbox, started, req, chat_cache, clock, visit,
          users, conversation_sessions, conversation_sessions_id_seq,
          conversation_messages>>

\* The accounts and the saved conversations of the registered site.
accounts == <<users, conversation_sessions, conversation_sessions_id_seq,
              conversation_messages>>

\* The state outside the funnel: the free-tier chat (api/chat.js) and the
\* accounts.
free == <<chat_cache, clock, visit, accounts>>

db == <<paid_sessions, paid_messages, unpaid_sessions, unpaid_messages,
        session_statistics>>

\* ------------------------------------------------------------------ helpers

\* result.rows[0] of a query that returned the row set rows
Row(rows) == CHOOSE r \in rows : TRUE

RECURSIVE SeqMax(_)
SeqMax(s) ==
  IF s = <<>> THEN 0
  ELSE LET m == SeqMax(Tail(s)) IN IF Head(s).created_at > m THEN Head(s).created_at ELSE m

\* CURRENT_TIMESTAMP of the next insert: later than every stored timestamp.
MaxOf(S) == IF S = {} THEN 0 ELSE CHOOSE x \in S : \A y \in S : y <= x

CurrentTimestamp ==
  1 + MaxOf({SeqMax(paid_messages[u]) : u \in UUIDs} \cup {SeqMax(unpaid_messages[u]) : u \in UUIDs})

RECURSIVE InsertSorted(_, _)
InsertSorted(m, s) ==
  IF s = <<>> THEN <<m>>
  ELSE IF m.created_at < Head(s).created_at THEN <<m>> \o s
  ELSE <<Head(s)>> \o InsertSorted(m, Tail(s))

\* ORDER BY created_at ASC over rows given in insertion order
RECURSIVE OrderByCreatedAt(_)
OrderByCreatedAt(s) ==
  IF s = <<>> THEN <<>>
  ELSE InsertSorted(s[Len(s)], OrderByCreatedAt(SubSeq(s, 1, Len(s) - 1)))

\* ------------------------------------------------------------------ reads

\* SELECT * FROM paid_sessions WHERE session_uuid = u LIMIT 1
getPaidSession(u) == {r \in paid_sessions : r.session_uuid = u}

\* Mutant of getUnpaidSession: the SELECT without its AND moved_to_paid = FALSE.
getUnpaidSession_AnyRow(u) == {r \in unpaid_sessions : r.session_uuid = u}

\* SELECT * FROM unpaid_sessions_with_email WHERE session_uuid = u AND moved_to_paid = FALSE
getUnpaidSession(u) == {r \in unpaid_sessions : r.session_uuid = u /\ ~r.moved_to_paid}

getPaidSessionMessages(id) == OrderByCreatedAt(paid_messages[id])

getUnpaidSessionMessages(id) == OrderByCreatedAt(unpaid_messages[id])

\* ------------------------------------------------------------------ statements

\* INSERT INTO paid_sessions (session_uuid, thread_id): the column defaults
NewPaidRow(u) ==
  [session_uuid |-> u, email |-> NULL, expertise |-> NULL, amount |-> 0,
   paid |-> FALSE, payment_intent_id |-> NoIntent, email_sent |-> FALSE,
   first_message_sent |-> FALSE]

createPaidSession(u) == paid_sessions \cup {NewPaidRow(u)}

\* UPDATE paid_sessions SET expertise, amount, payment_intent_id WHERE session_uuid = u
updatePaidSessionPayment(u, expertise, amount, pi) ==
  {IF r.session_uuid = u
     THEN [r EXCEPT !.expertise = expertise, !.amount = amount, !.payment_intent_id = pi]
     ELSE r : r \in paid_sessions}

\* UPDATE paid_sessions SET paid = TRUE, email = COALESCE(email arg, email)
markPaidSessionCompletedUpdate(u, email) ==
  {IF r.session_uuid = u
     THEN [r EXCEPT !.paid = TRUE, !.email = IF email # NULL THEN email ELSE r.email]
     ELSE r : r \in paid_sessions}

\* Mutant of incrementPaymentCompleted: a payment also counts as an email.
incrementPaymentCompleted_CountsEmail ==
  [session_statistics EXCEPT !.payments_completed_count = @ + 1,
                             !.emails_collected_count = @ + 1]

incrementPaymentCompleted ==
  [session_statistics EXCEPT !.payments_completed_count = @ + 1]

incrementEmailCollected ==
  [session_statistics EXCEPT !.emails_collected_count = @ + 1]

incrementFirstMessage ==
  [session_statistics EXCEPT !.first_messages_count = @ + 1]

\* UPDATE paid_sessions SET email_sent = TRUE WHERE session_uuid = u
markEmailSent(u) ==
  {IF r.session_uuid = u THEN [r EXCEPT !.email_sent = TRUE] ELSE r : r \in paid_sessions}

\* UPDATE unpaid_sessions_with_email SET email = e WHERE session_uuid = u
updateUnpaidSessionEmailUpdate(u, email) ==
  {IF r.session_uuid = u THEN [r EXCEPT !.email = email] ELSE r : r \in unpaid_sessions}

\* INSERT INTO unpaid_sessions_with_email (...) VALUES (u, email, fields of the
\* paid row) ON CONFLICT (session_uuid) DO UPDATE SET email = EXCLUDED.email
moveSessionToUnpaidInsert(u, email, paidSession) ==
  IF \E r \in unpaid_sessions : r.session_uuid = u
    THEN {IF r.session_uuid = u THEN [r EXCEPT !.email = email] ELSE r : r \in unpaid_sessions}
    ELSE unpaid_sessions \cup
      {[session_uuid |-> u, email |-> email, expertise |-> paidSession.expertise,
        amount |-> paidSession.amount, payment_intent_id |-> paidSession.payment_intent_id,
        moved_to_paid |-> FALSE, first_message_sent |-> FALSE]}

\* INSERT INTO paid_messages / unpaid_messages (session_id, role, content):
\* created_at takes its default, CURRENT_TIMESTAMP
NewMessage(role, content) ==
  [role |-> role, content |-> content, created_at |-> CurrentTimestamp]

addPaidMessage(id, role, content) ==
  [paid_messages EXCEPT ![id] = Append(@, NewMessage(role, content))]

addUnpaidMessage(id, role, content) ==
  [unpaid_messages EXCEPT ![id] = Append(@, NewMessage(role, content))]

\* Mutant of migrateUpsert: the conflict branch also takes paid from the
\* inserted values (SET paid = EXCLUDED.paid), which are FALSE.
migrateUpsert_ResetsPaid(unpaidSession, email) ==
  LET u == unpaidSession.session_uuid
      e == IF email # NULL /\ email # "" THEN email ELSE unpaidSession.email
      fresh == [NewPaidRow(u) EXCEPT !.email = e, !.expertise = unpaidSession.expertise,
                                     !.amount = unpaidSession.amount,
                                     !.payment_intent_id = unpaidSession.payment_intent_id]
  IN IF \E r \in paid_sessions : r.session_uuid = u
       THEN {IF r.session_uuid = u
               THEN [r EXCEPT !.email = e, !.expertise = unpaidSession.expertise,
                              !.amount = unpaidSession.amount,
                              !.payment_intent_id = unpaidSession.payment_intent_id,
                              !.paid = FALSE]
               ELSE r : r \in paid_sessions}
       ELSE paid_sessions \cup {fresh}

\* INSERT INTO paid_sessions (...) VALUES (fields of the unpaid row, paid FALSE)
\* ON CONFLICT (session_uuid) DO UPDATE SET email, expertise, amount, payment_intent_id
migrateUpsert(unpaidSession, email) ==
  LET u == unpaidSession.session_uuid
      e == IF email # NULL /\ email # "" THEN email ELSE unpaidSession.email
  IN IF \E r \in paid_sessions : r.session_uuid = u
       THEN {IF r.session_uuid = u
               THEN [r EXCEPT !.email = e, !.expertise = unpaidSession.expertise,
                              !.amount = unpaidSession.amount,
                              !.payment_intent_id = unpaidSession.payment_intent_id]
               ELSE r : r \in paid_sessions}
       ELSE paid_sessions \cup
         {[NewPaidRow(u) EXCEPT !.email = e, !.expertise = unpaidSession.expertise,
                                !.amount = unpaidSession.amount,
                                !.payment_intent_id = unpaidSession.payment_intent_id]}

\* Mutant of migrateCopyMessage: the loop body inserts nothing.
migrateCopyMessage_Skips(id, msg) == paid_messages

\* INSERT INTO paid_messages (session_id, role, content, created_at) VALUES
\* (.., msg.created_at) ON CONFLICT DO NOTHING: paid_messages has no unique
\* key besides its serial id, so the insert never conflicts.
migrateCopyMessage(id, msg) ==
  [paid_messages EXCEPT ![id] = Append(@, msg)]

\* Mutant of markUnpaidSessionAsMoved: the UPDATE matches no row.
markUnpaidSessionAsMoved_NoRow(u) == unpaid_sessions

\* UPDATE unpaid_sessions_with_email SET moved_to_paid = TRUE WHERE session_uuid = u
markUnpaidSessionAsMoved(u) ==
  {IF r.session_uuid = u THEN [r EXCEPT !.moved_to_paid = TRUE] ELSE r : r \in unpaid_sessions}


\* ------------------------------------------------------------------ requests

\* A free request slot; the locals of a handler that is not running.
Idle ==
  [op |-> "idle", pc |-> "idle", uuid |-> NULL, message |-> NULL, email |-> NULL,
   session |-> {}, unpaidSession |-> {}, paidSession |-> {}, conflict |-> FALSE,
   capture |-> NULL,
   msgs |-> <<>>, pi |-> NoIntent, status |-> NULL, expertise |-> NULL,
   attempts |-> 0, runStatus |-> NULL, sessionId |-> NULL, role |-> NULL,
   answer |-> NULL, resp |-> NULL]

\* The handler has sent its response (or the called function has returned).
Done(r, resp) ==
  [Idle EXCEPT !.op = r.op, !.pc = "done", !.uuid = r.uuid, !.pi = r.pi,
               !.status = r.status, !.resp = resp]

\* A slot with no free-tier request; the locals of the chat.js handler.
\* lookup is the outcome of getCachedAnswer while the handler acts on it.
NoVisit ==
  [pc |-> "idle", message |-> <<>>, qUsed |-> 0, registered |-> FALSE,
   limiter |-> NULL, success |-> TRUE,
   lookup |-> "none", answer |-> NULL, fromCache |-> FALSE, resp |-> NULL,
   newQUsed |-> NULL]

Init ==
  /\ paid_sessions = {}
  /\ paid_messages = [u \in UUIDs |-> <<>>]
  /\ unpaid_sessions = {}
  /\ unpaid_messages = [u \in UUIDs |-> <<>>]
  /\ session_statistics =
       [first_messages_count |-> 0, emails_collected_count |-> 0, payments_completed_count |-> 0]
  /\ stripe = [i \in PaymentIntents |-> "none"]
  /\ outbox = <<>>
  /\ started = 0
  /\ req = [p \in Procs |-> Idle]
  /\ chat_cache = {}
  /\ clock = 0
  /\ visit = [p \in Procs |-> NoVisit]
  /\ users = {}
  /\ conversation_sessions = {}
  /\ conversation_sessions_id_seq = 0
  /\ conversation_messages = <<>>

\* The response is delivered; the slot is free for the next request.
Finish(p) ==
  /\ req[p].pc = "done"
  /\ req' = [req EXCEPT ![p] = Idle]
  /\ UNCHANGED <<free, db, stripe, outbox, started>>

\* ---- api/create-session: crypto.randomUUID(), createPaidSession

\* A new request is admitted while the clients' budget lasts; only a
\* specification that bounds the number of requests counts them.
Admit(c) ==
  /\ started < c.maxRequests
  /\ started' = IF c.counted THEN started + 1 ELSE started

CreateSession(p, c) ==
  /\ req[p].pc = "idle"
  /\ Admit(c)
  /\ \E u \in UUIDs :
       /\ getPaidSession(u) = {}
       /\ paid_sessions' = createPaidSession(u)
       /\ req' = [req EXCEPT ![p] = Done([Idle EXCEPT !.op = "create", !.uuid = u], "200")]
  /\ UNCHANGED <<free, paid_messages, unpaid_sessions, unpaid_messages, session_statistics,
                 stripe, outbox>>

\* ---- funnel chat handler

\* The log appendMessage would write to: unpaid first, else paid.
ResolvedLog(u) ==
  IF getUnpaidSession(u) # {} THEN unpaid_messages[u] ELSE paid_messages[u]

\* Validation, rate limit, getPaidSession; then the email test of line 238.
ChatStart(p, c) ==
  /\ req[p].pc = "idle"
  /\ Admit(c)
  /\ \E u \in UUIDs, message \in UserMessages, allowed \in c.rateLimit :
       /\ Len(ResolvedLog(u)) <= c.maxLog
       /\ EmailMatch(message) # NULL => session_statistics.emails_collected_count < MaxCount
       /\ LET session == getPaidSession(u)
              r == [Idle EXCEPT !.op = "chat", !.uuid = u, !.message = message]
          IN req' = [req EXCEPT ![p] =
               IF ~allowed THEN Done(r, "429")
               ELSE IF session = {} THEN Done(r, "404")
               ELSE IF EmailMatch(message) # NULL /\ Row(session).email = NULL
                 THEN [r EXCEPT !.pc = "chat_get_unpaid", !.email = EmailMatch(message)]
               ELSE [r EXCEPT !.pc = "chat_assistant"]]
  /\ UNCHANGED <<free, db, stripe, outbox>>

\* const unpaidSession = await getUnpaidSession(sessionId)
ChatGetUnpaid(p) ==
  /\ req[p].pc = "chat_get_unpaid"
  /\ LET unpaidSession == getUnpaidSession(req[p].uuid)
     IN req' = [req EXCEPT ![p] =
          IF unpaidSession # {}
            THEN [req[p] EXCEPT !.pc = "update_unpaid_email"]
            ELSE [req[p] EXCEPT !.pc = "move_get_paid"]]
  /\ UNCHANGED <<free, db, stripe, outbox, started>>

\* What follows the email capture in the handler that made it; capture
\* records the branch of line 244 the request took.  A direct call of
\* moveSessionToUnpaid returns the unpaid row.
AfterCapture(r, branch) ==
  IF r.op = "chat"
    THEN [r EXCEPT !.pc = "chat_assistant", !.paidSession = {}, !.msgs = <<>>, !.capture = branch]
    ELSE Done(r, "returned")

\* updateUnpaidSessionEmail: the UPDATE, then incrementEmailCollected
UpdateUnpaidSessionEmail(p) ==
  /\ req[p].pc = "update_unpaid_email"
  /\ unpaid_sessions' = updateUnpaidSessionEmailUpdate(req[p].uuid, req[p].email)
  /\ session_statistics' = incrementEmailCollected
  /\ req' = [req EXCEPT ![p] = AfterCapture(req[p], "updated")]
  /\ UNCHANGED <<free, paid_sessions, paid_messages, unpaid_messages, stripe, outbox, started>>

\* moveSessionToUnpaid step 1: getPaidSession; throws when there is no row
MoveGetPaid(p) ==
  /\ req[p].pc = "move_get_paid"
  /\ LET paidSession == getPaidSession(req[p].uuid)
     IN req' = [req EXCEPT ![p] =
          IF paidSession = {} THEN Done(req[p], "500")
          ELSE [req[p] EXCEPT !.pc = "move_insert", !.paidSession = paidSession]]
  /\ UNCHANGED <<free, db, stripe, outbox, started>>

\* moveSessionToUnpaid step 2: INSERT ... ON CONFLICT DO UPDATE
MoveInsert(p) ==
  /\ req[p].pc = "move_insert"
  /\ unpaid_sessions' =
       moveSessionToUnpaidInsert(req[p].uuid, req[p].email, Row(req[p].paidSession))
  /\ req' = [req EXCEPT ![p] =
       [req[p] EXCEPT !.pc = "move_get_msgs",
                      !.conflict = \E r \in unpaid_sessions : r.session_uuid = req[p].uuid]]
  /\ UNCHANGED <<free, paid_sessions, paid_messages, unpaid_messages, session_statistics,
                 stripe, outbox, started>>

\* moveSessionToUnpaid step 3: getPaidSessionMessages(paidSession.id)
MoveGetMsgs(p) ==
  /\ req[p].pc = "move_get_msgs"
  /\ LET paidMessages == getPaidSessionMessages(req[p].uuid)
     IN req' = [req EXCEPT ![p] =
          IF paidMessages = <<>> THEN AfterCapture(req[p], "moved")
          ELSE [req[p] EXCEPT !.pc = "move_copy", !.msgs = paidMessages]]
  /\ UNCHANGED <<free, db, stripe, outbox, started>>

\* moveSessionToUnpaid loop body: addUnpaidMessage(unpaidSession.id, msg.role, msg.content)
MoveCopy(p) ==
  /\ req[p].pc = "move_copy"
  /\ LET msg == Head(req[p].msgs)
         rest == Tail(req[p].msgs)
     IN /\ unpaid_messages' = addUnpaidMessage(req[p].uuid, msg.role, msg.content)
        /\ req' = [req EXCEPT ![p] =
             IF rest = <<>> THEN AfterCapture(req[p], "moved")
             ELSE [req[p] EXCEPT !.msgs = rest]]
  /\ UNCHANGED <<free, paid_sessions, paid_messages, unpaid_sessions, session_statistics,
                 stripe, outbox, started>>

\* Mutant of AssistantFailed: the catch logs the error and falls through to
\* the save, without an answer.
AssistantFailed_FallsThrough(r) == [r EXCEPT !.pc = "save_get_unpaid"]

\* catch (error) of line 366: the generic 500 response
AssistantFailed(r) == Done(r, "500")

\* The assistant exchange (add message, run, poll, fetch): it yields an answer
\* or throws, and the catch of line 366 answers 500 without saving anything.
ChatAssistant(p) ==
  /\ req[p].pc = "chat_assistant"
  /\ \E ok \in BOOLEAN :
       req' = [req EXCEPT ![p] =
         IF ok THEN [req[p] EXCEPT !.pc = "save_get_unpaid", !.answer = AssistantAnswer,
                                   !.capture = NULL, !.conflict = FALSE, !.email = NULL]
         ELSE AssistantFailed(req[p])]
  /\ UNCHANGED <<free, db, stripe, outbox, started>>

\* The assistant exchange statement by statement.  POST of the visitor's
\* message to the thread: a response that is not ok throws.
AssistantAddMessage(p) ==
  /\ req[p].pc = "chat_assistant"
  /\ \E ok \in BOOLEAN :
       req' = [req EXCEPT ![p] =
         IF ok THEN [req[p] EXCEPT !.pc = "assistant_run"] ELSE AssistantFailed(req[p])]
  /\ UNCHANGED <<free, db, stripe, outbox, started>>

\* POST of the run; then runStatus = 'queued', attempts = 0
AssistantCreateRun(p) ==
  /\ req[p].pc = "assistant_run"
  /\ \E ok \in BOOLEAN :
       req' = [req EXCEPT ![p] =
         IF ok THEN [req[p] EXCEPT !.pc = "poll", !.runStatus = "queued", !.attempts = 0]
         ELSE AssistantFailed(req[p])]
  /\ UNCHANGED <<free, db, stripe, outbox, started>>

\* Mutant of KeepsPolling: the loop has no cap.
KeepsPolling_NoCap(runStatus, attempts) == runStatus # "completed"

\* while (runStatus !== 'completed' && attempts < maxAttempts)
KeepsPolling(runStatus, attempts) == runStatus # "completed" /\ attempts < maxAttempts

\* The catch of line 366 after a throw of the polling loop; the response
\* keeps the status last read and the number of checks made.
PollFailed(r, runStatus, attempts) ==
  [AssistantFailed(r) EXCEPT !.runStatus = runStatus, !.attempts = attempts]

\* One turn of the polling loop: the wait of one second, the GET of the
\* run, the throw on a response that is not ok or on a failed status,
\* attempts++; then the test of the loop and, out of the loop, the throw
\* of line 337 when the run has not completed.
PollStatus(p) ==
  /\ req[p].pc = "poll"
  /\ \E ok \in BOOLEAN, status \in RunStatuses :
       req' = [req EXCEPT ![p] =
         IF ~ok THEN PollFailed(req[p], req[p].runStatus, req[p].attempts)
         ELSE IF status \in FailedStatuses THEN PollFailed(req[p], status, req[p].attempts)
         ELSE LET r == [req[p] EXCEPT !.runStatus = status, !.attempts = @ + 1]
              IN IF KeepsPolling(r.runStatus, r.attempts) THEN r
                 ELSE IF r.runStatus # "completed"
                   THEN PollFailed(r, r.runStatus, r.attempts)
                 ELSE [r EXCEPT !.pc = "assistant_messages"]]
  /\ UNCHANGED <<free, db, stripe, outbox, started>>

\* GET of the thread's messages and the assistant's answer in them
AssistantGetMessages(p) ==
  /\ req[p].pc = "assistant_messages"
  /\ \E ok \in BOOLEAN :
       req' = [req EXCEPT ![p] =
         IF ok THEN [req[p] EXCEPT !.pc = "save_get_unpaid", !.answer = AssistantAnswer,
                                   !.capture = NULL, !.conflict = FALSE, !.email = NULL,
                                   !.runStatus = NULL, !.attempts = 0]
         ELSE AssistantFailed(req[p])]
  /\ UNCHANGED <<free, db, stripe, outbox, started>>

\* Save: const unpaidSession = await getUnpaidSession(sessionId); the save
\* reads only unpaidSession.id, which is all the local keeps.
SaveGetUnpaid(p) ==
  /\ req[p].pc = "save_get_unpaid"
  /\ req' = [req EXCEPT ![p] =
       [req[p] EXCEPT !.pc = "save_user",
                      !.unpaidSession = {[session_uuid |-> r.session_uuid] : r \in getUnpaidSession(req[p].uuid)}]]
  /\ UNCHANGED <<free, db, stripe, outbox, started>>

\* Save: the visitor message, to unpaid_messages or to paid_messages
SaveUser(p) ==
  /\ req[p].pc = "save_user"
  /\ IF req[p].unpaidSession # {}
       THEN /\ unpaid_messages' = addUnpaidMessage(req[p].uuid, "user", req[p].message)
            /\ UNCHANGED paid_messages
       ELSE /\ paid_messages' = addPaidMessage(req[p].uuid, "user", req[p].message)
            /\ UNCHANGED unpaid_messages
  /\ req' = [req EXCEPT ![p] = [req[p] EXCEPT !.pc = "save_assistant"]]
  /\ UNCHANGED <<free, paid_sessions, unpaid_sessions, session_statistics, stripe, outbox, started>>

\* Save: the assistant message, to the same log; then the 200 response
SaveAssistant(p) ==
  /\ req[p].pc = "save_assistant"
  /\ IF req[p].unpaidSession # {}
       THEN /\ unpaid_messages' = addUnpaidMessage(req[p].uuid, "assistant", req[p].answer)
            /\ UNCHANGED paid_messages
       ELSE /\ paid_messages' = addPaidMessage(req[p].uuid, "assistant", req[p].answer)
            /\ UNCHANGED unpaid_messages
  /\ req' = [req EXCEPT ![p] = Done(req[p], "200")]
  /\ UNCHANGED <<free, paid_sessions, unpaid_sessions, session_statistics, stripe, outbox, started>>

\* Save, when a statement of the try of line 379 throws (a storage error in
\* getUnpaidSession, addUnpaidMessage or addPaidMessage): the catch of line
\* 402 logs it, the rest of the save is skipped and the handler answers 200.
SaveFails(p) ==
  /\ req[p].pc \in {"save_get_unpaid", "save_user", "save_assistant"}
  /\ req' = [req EXCEPT ![p] = Done(req[p], "200")]
  /\ UNCHANGED <<free, db, stripe, outbox, started>>

\* ---- create-payment-intent handler

\* Mutant of SessionPaid: the handler skips the test of line 171.
SessionPaid_NeverPaid(session) == FALSE

\* if (session.paid) of line 171
SessionPaid(session) == session.paid

\* Validation against EXPERTISE_CONFIG, getPaidSession, the paid test
IntentStart(p, c) ==
  /\ req[p].pc = "idle"
  /\ Admit(c)
  /\ \E u \in UUIDs, expertise \in c.expertises, amount \in c.amounts :
       LET session == getPaidSession(u)
           r == [Idle EXCEPT !.op = "intent", !.uuid = u, !.expertise = expertise]
       IN req' = [req EXCEPT ![p] =
            IF EXPERTISE_CONFIG[expertise] # amount THEN Done(r, "400")
            ELSE IF session = {} THEN Done(r, "404")
            ELSE IF SessionPaid(Row(session)) THEN Done(r, "400 paid")
            ELSE [r EXCEPT !.pc = "intent_create"]]
  /\ UNCHANGED <<free, db, stripe, outbox>>

\* stripe.paymentIntents.create: a new intent, not yet paid
IntentCreate(p) ==
  /\ req[p].pc = "intent_create"
  /\ \E pi \in PaymentIntents :
       /\ stripe[pi] = "none"
       /\ \A j \in PaymentIntents : j < pi => stripe[j] # "none"
       /\ stripe' = [stripe EXCEPT ![pi] = "requires_payment_method"]
       /\ req' = [req EXCEPT ![p] = [req[p] EXCEPT !.pc = "intent_update", !.pi = pi]]
  /\ UNCHANGED <<free, db, outbox, started>>

\* updatePaidSessionPayment(sessionId, expertise, amount, paymentIntent.id)
IntentUpdate(p) ==
  /\ req[p].pc = "intent_update"
  /\ paid_sessions' = updatePaidSessionPayment(req[p].uuid, req[p].expertise,
                                               EXPERTISE_CONFIG[req[p].expertise], req[p].pi)
  /\ req' = [req EXCEPT ![p] =
       IF getPaidSession(req[p].uuid) = {} THEN Done(req[p], "500") ELSE Done(req[p], "200")]
  /\ UNCHANGED <<free, paid_messages, unpaid_sessions, unpaid_messages, session_statistics,
                 stripe, outbox, started>>

\* The visitor pays an intent in the browser (Stripe Elements).
CustomerPays ==
  /\ \E pi \in PaymentIntents :
       /\ stripe[pi] = "requires_payment_method"
       /\ stripe' = [stripe EXCEPT ![pi] = "succeeded"]
  /\ UNCHANGED <<free, db, outbox, started, req>>

\* ---- verify-payment handler

\* getPaidSession, the intent id comparison, the already-paid short circuit.
\* Of the session read, the later steps use email (and the id, which the
\* uuid stands for); the local keeps email and payment_intent_id.
VerifyStart(p, c) ==
  /\ req[p].pc = "idle"
  /\ Admit(c)
  /\ \E u \in UUIDs, pi \in PaymentIntents :
       LET session == getPaidSession(u)
           r == [Idle EXCEPT !.op = "verify", !.uuid = u, !.pi = pi,
                             !.session = {[email |-> x.email,
                                           payment_intent_id |-> x.payment_intent_id] : x \in session}]
       IN req' = [req EXCEPT ![p] =
            IF session = {} THEN Done(r, "404")
            ELSE IF Row(session).payment_intent_id # pi THEN Done(r, "400")
            ELSE IF Row(session).paid THEN Done(r, "200 alreadyPaid")
            ELSE [r EXCEPT !.pc = "verify_retrieve"]]
  /\ UNCHANGED <<free, db, stripe, outbox>>

\* Mutant of StatusConfirms: the handler trusts the client and accepts any
\* status of the retrieved intent.
StatusConfirms_AnyStatus(status) == status = status

\* The status test of line 70 on the retrieved intent.
StatusConfirms(status) == status = "succeeded"

\* stripe.paymentIntents.retrieve(paymentIntentId) and the status test
VerifyRetrieve(p) ==
  /\ req[p].pc = "verify_retrieve"
  /\ LET status == stripe[req[p].pi]
         r == [req[p] EXCEPT !.status = status]
     IN req' = [req EXCEPT ![p] =
          IF status = "none" THEN Done(r, "500")
          ELSE IF StatusConfirms(status) THEN [r EXCEPT !.pc = "verify_mark"]
          ELSE Done(r, "400")]
  /\ UNCHANGED <<free, db, stripe, outbox, started>>

\* markPaidSessionCompleted(sessionUuid, email): the UPDATE and, when it
\* matched a row, incrementPaymentCompleted; <<paid_sessions, statistics>>
markPaidSessionCompleted(u, email) ==
  IF getPaidSession(u) = {} THEN <<paid_sessions, session_statistics>>
  ELSE <<markPaidSessionCompletedUpdate(u, email), incrementPaymentCompleted>>

\* await markPaidSessionCompleted(sessionId, session.email)
VerifyMark(p) ==
  /\ req[p].pc = "verify_mark"
  /\ LET email == Row(req[p].session).email
         after == markPaidSessionCompleted(req[p].uuid, email)
     IN /\ paid_sessions' = after[1]
        /\ session_statistics' = after[2]
        /\ req' = [req EXCEPT ![p] =
             IF getPaidSession(req[p].uuid) = {} THEN Done(req[p], "500")
             ELSE IF email # NULL THEN [req[p] EXCEPT !.pc = "verify_get_msgs"]
             ELSE Done(req[p], "200")]
  /\ UNCHANGED <<free, paid_messages, unpaid_sessions, unpaid_messages, stripe, outbox, started>>

\* const messages = await getPaidSessionMessages(session.id)
VerifyGetMsgs(p) ==
  /\ req[p].pc = "verify_get_msgs"
  /\ req' = [req EXCEPT ![p] =
       [req[p] EXCEPT !.pc = "verify_send", !.msgs = getPaidSessionMessages(req[p].uuid)]]
  /\ UNCHANGED <<free, db, stripe, outbox, started>>

\* Mutant of EmailFailed: the failure reaches the outer catch of the handler,
\* which answers 500.
EmailFailed_Propagates(r) == Done(r, "500")

\* catch (emailError) of line 108, then the 200 response with emailSent false
EmailFailed(r) == Done(r, "200")

\* sendAnalysisEmail: resend.emails.send to ADMIN_EMAIL; it delivers or throws,
\* and the catch of line 108 swallows the failure.
VerifySend(p) ==
  /\ req[p].pc = "verify_send"
  /\ \E delivered \in BOOLEAN :
       /\ outbox' = Append(outbox,
            [to |-> ADMIN_EMAIL, clientEmail |-> Row(req[p].session).email,
             messages |-> req[p].msgs, paymentIntentId |-> req[p].pi,
             delivered |-> delivered])
       /\ req' = [req EXCEPT ![p] =
            IF delivered THEN [req[p] EXCEPT !.pc = "verify_mark_sent", !.msgs = <<>>]
            ELSE EmailFailed(req[p])]
  /\ UNCHANGED <<free, db, stripe, started>>

\* await markEmailSent(sessionId)
VerifyMarkSent(p) ==
  /\ req[p].pc = "verify_mark_sent"
  /\ paid_sessions' = markEmailSent(req[p].uuid)
  /\ req' = [req EXCEPT ![p] = Done(req[p], "200 emailSent")]
  /\ UNCHANGED <<free, paid_messages, unpaid_sessions, unpaid_messages, session_statistics,
                 stripe, outbox, started>>

\* ---- migrateUnpaidToPaidSession(sessionUuid, email)

\* Step 1: getUnpaidSession; no eligible row returns false
MigrateStart(p, c) ==
  /\ req[p].pc = "idle"
  /\ Admit(c)
  /\ \E u \in UUIDs, email \in c.emails :
       LET unpaidSession == getUnpaidSession(u)
           r == [Idle EXCEPT !.op = "migrate", !.uuid = u, !.email = email,
                             !.unpaidSession = unpaidSession]
       IN req' = [req EXCEPT ![p] =
            IF unpaidSession = {} THEN Done(r, "false")
            ELSE [r EXCEPT !.pc = "migrate_get_msgs"]]
  /\ UNCHANGED <<free, db, stripe, outbox>>

\* Step 2: getUnpaidSessionMessages(unpaidSession.id)
MigrateGetMsgs(p) ==
  /\ req[p].pc = "migrate_get_msgs"
  /\ req' = [req EXCEPT ![p] =
       [req[p] EXCEPT !.pc = "migrate_upsert", !.msgs = getUnpaidSessionMessages(req[p].uuid)]]
  /\ UNCHANGED <<free, db, stripe, outbox, started>>

\* Step 3: INSERT INTO paid_sessions ... ON CONFLICT DO UPDATE
MigrateUpsert(p) ==
  /\ req[p].pc = "migrate_upsert"
  /\ paid_sessions' = migrateUpsert(Row(req[p].unpaidSession), req[p].email)
  /\ req' = [req EXCEPT ![p] = [req[p] EXCEPT !.pc = "migrate_get_paid"]]
  /\ UNCHANGED <<free, paid_messages, unpaid_sessions, unpaid_messages, session_statistics,
                 stripe, outbox, started>>

\* Step 4: getPaidSession(sessionUuid), for the id of the paid row
MigrateGetPaid(p) ==
  /\ req[p].pc = "migrate_get_paid"
  /\ req' = [req EXCEPT ![p] =
       [req[p] EXCEPT !.pc = IF req[p].msgs = <<>> THEN "migrate_mark" ELSE "migrate_copy",
                      !.paidSession = getPaidSession(req[p].uuid)]]
  /\ UNCHANGED <<free, db, stripe, outbox, started>>

\* Step 5, loop body: INSERT INTO paid_messages ... ON CONFLICT DO NOTHING
MigrateCopy(p) ==
  /\ req[p].pc = "migrate_copy"
  /\ LET msg == Head(req[p].msgs)
         rest == Tail(req[p].msgs)
     IN /\ paid_messages' = migrateCopyMessage(Row(req[p].paidSession).session_uuid, msg)
        /\ req' = [req EXCEPT ![p] =
             [req[p] EXCEPT !.msgs = rest,
                            !.pc = IF rest = <<>> THEN "migrate_mark" ELSE "migrate_copy"]]
  /\ UNCHANGED <<free, paid_sessions, unpaid_sessions, unpaid_messages, session_statistics,
                 stripe, outbox, started>>

\* Step 6: markUnpaidSessionAsMoved(sessionUuid); return true
MigrateMark(p) ==
  /\ req[p].pc = "migrate_mark"
  /\ unpaid_sessions' = markUnpaidSessionAsMoved(req[p].uuid)
  /\ req' = [req EXCEPT ![p] = Done(req[p], "true")]
  /\ UNCHANGED <<free, paid_sessions, paid_messages, unpaid_messages, session_statistics,
                 stripe, outbox, started>>

\* A statement of migrateUnpaidToPaidSession throws (a storage error), or the
\* process stops there: the catch of line 1859 rethrows, nothing is undone.
MigrateFails(p) ==
  /\ req[p].op = "migrate"
  /\ req[p].pc \in {"migrate_get_msgs", "migrate_upsert", "migrate_get_paid",
                    "migrate_copy", "migrate_mark"}
  /\ req' = [req EXCEPT ![p] = Done(req[p], "throws")]
  /\ UNCHANGED <<free, db, stripe, outbox, started>>

\* ---- direct calls of the ledger functions (LedgerSpec)

\* markPaidSessionCompleted(sessionUuid, email) called on its own; it throws
\* 'Session non trouvee' when the UPDATE matched no row.
CallMarkPaidSessionCompleted(p, c) ==
  /\ req[p].pc = "idle"
  /\ Admit(c)
  /\ session_statistics.payments_completed_count < MaxCount
  /\ \E u \in UUIDs, email \in Emails \cup {NULL} :
       LET after == markPaidSessionCompleted(u, email)
           r == [Idle EXCEPT !.op = "confirm", !.uuid = u, !.email = email]
       IN /\ paid_sessions' = after[1]
          /\ session_statistics' = after[2]
          /\ req' = [req EXCEPT ![p] =
               IF getPaidSession(u) = {} THEN Done(r, "throws") ELSE Done(r, "returned")]
  /\ UNCHANGED <<free, paid_messages, unpaid_sessions, unpaid_messages, stripe, outbox>>

\* ---- direct calls of the exported functions (FunctionsSpec)

\* Mutant of markPaidSessionFirstMessageWhere: the UPDATE without its
\* AND first_message_sent = FALSE.
markPaidSessionFirstMessageWhere_AnyFlag(u) ==
  {r \in paid_sessions : r.session_uuid = u}

\* WHERE session_uuid = u AND first_message_sent = FALSE, on paid_sessions:
\* the rows the UPDATE changes and returns.
markPaidSessionFirstMessageWhere(u) ==
  {r \in paid_sessions : r.session_uuid = u /\ ~r.first_message_sent}

\* The same WHERE on unpaid_sessions_with_email.
markUnpaidSessionFirstMessageWhere(u) ==
  {r \in unpaid_sessions : r.session_uuid = u /\ ~r.first_message_sent}

\* markPaidSessionFirstMessage(sessionUuid): the conditional UPDATE; the
\* function goes on to incrementFirstMessage only if a row was returned,
\* else it returns null.
MarkPaidSessionFirstMessage(p, c) ==
  /\ req[p].pc = "idle"
  /\ Admit(c)
  /\ \E u \in UUIDs :
       LET rows == markPaidSessionFirstMessageWhere(u)
           r == [Idle EXCEPT !.op = "first_paid", !.uuid = u]
       IN /\ paid_sessions' =
               {IF x \in rows THEN [x EXCEPT !.first_message_sent = TRUE] ELSE x : x \in paid_sessions}
          /\ req' = [req EXCEPT ![p] =
               IF rows # {} THEN [r EXCEPT !.pc = "first_increment"] ELSE Done(r, "null")]
  /\ UNCHANGED <<free, paid_messages, unpaid_sessions, unpaid_messages, session_statistics,
                 stripe, outbox>>

\* markUnpaidSessionFirstMessage(sessionUuid): the same on the unpaid table.
MarkUnpaidSessionFirstMessage(p, c) ==
  /\ req[p].pc = "idle"
  /\ Admit(c)
  /\ \E u \in UUIDs :
       LET rows == markUnpaidSessionFirstMessageWhere(u)
           r == [Idle EXCEPT !.op = "first_unpaid", !.uuid = u]
       IN /\ unpaid_sessions' =
               {IF x \in rows THEN [x EXCEPT !.first_message_sent = TRUE] ELSE x : x \in unpaid_sessions}
          /\ req' = [req EXCEPT ![p] =
               IF rows # {} THEN [r EXCEPT !.pc = "first_increment"] ELSE Done(r, "null")]
  /\ UNCHANGED <<free, paid_sessions, paid_messages, unpaid_messages, session_statistics,
                 stripe, outbox>>

\* await incrementFirstMessage(); return result.rows[0]
FirstMessageIncrement(p) ==
  /\ req[p].pc = "first_increment"
  /\ session_statistics' = incrementFirstMessage
  /\ req' = [req EXCEPT ![p] = Done(req[p], "row")]
  /\ UNCHANGED <<free, paid_sessions, paid_messages, unpaid_sessions, unpaid_messages,
                 stripe, outbox, started>>

\* addPaidMessage(sessionId, role, content) called on its own, while the
\* log is short enough for the callers.
CallAddPaidMessage(p, c) ==
  /\ req[p].pc = "idle"
  /\ Admit(c)
  /\ \E u \in UUIDs, message \in UserMessages :
       /\ getPaidSession(u) # {}
       /\ Len(paid_messages[u]) <= c.maxLog
       /\ paid_messages' = addPaidMessage(u, "user", message)
       /\ req' = [req EXCEPT ![p] = Done([Idle EXCEPT !.op = "add_paid", !.uuid = u], "returned")]
  /\ UNCHANGED <<free, paid_sessions, unpaid_sessions, unpaid_messages, session_statistics,
                 stripe, outbox>>

\* moveSessionToUnpaid(sessionUuid, email) called on its own; its steps are
\* MoveGetPaid, MoveInsert, MoveGetMsgs, MoveCopy.
CallMoveSessionToUnpaid(p, c) ==
  /\ req[p].pc = "idle"
  /\ Admit(c)
  /\ \E u \in UUIDs, email \in c.emails \ {NULL} :
       req' = [req EXCEPT ![p] =
         [Idle EXCEPT !.op = "move", !.pc = "move_get_paid", !.uuid = u, !.email = email]]
  /\ UNCHANGED <<free, db, stripe, outbox>>

\* ---- free-tier chat handler (api/chat.js) and its answer cache

\* The state of the funnel.
funnel == <<db, stripe, outbox, req>>

\* Mutant of CacheHit: an entry is still served at the instant it expires.
CacheHit_AtExpiry(question) ==
  {r \in chat_cache : r.question_hash = hashQuestion(question) /\ r.expires_at >= clock}

\* SELECT ... FROM chat_cache WHERE question_hash = h AND expires_at > CURRENT_TIMESTAMP
CacheHit(question) ==
  {r \in chat_cache : r.question_hash = hashQuestion(question) /\ r.expires_at > clock}

\* UPDATE chat_cache SET hit_count = hit_count + 1, last_accessed_at =
\* CURRENT_TIMESTAMP WHERE question_hash = h
CacheTouch(question) ==
  {IF r.question_hash = hashQuestion(question)
     THEN [r EXCEPT !.hit_count = @ + 1, !.last_accessed_at = clock]
     ELSE r : r \in chat_cache}

\* Mutant of CacheUpsert: on conflict the hit counter starts over.
CacheUpsert_ResetsHits(question, answer) ==
  {r \in chat_cache : r.question_hash # hashQuestion(question)} \cup
    {[question_hash |-> hashQuestion(question), answer_text |-> answer,
      hit_count |-> 1, last_accessed_at |-> clock, expires_at |-> clock + CacheTTL]}

\* INSERT INTO chat_cache (question_hash, ..., answer_text) ...
\* ON CONFLICT (question_hash) DO UPDATE SET answer_text, hit_count + 1,
\* last_accessed_at
CacheUpsert(question, answer) ==
  IF \E r \in chat_cache : r.question_hash = hashQuestion(question)
    THEN {IF r.question_hash = hashQuestion(question)
            THEN [r EXCEPT !.answer_text = answer, !.hit_count = @ + 1,
                           !.last_accessed_at = clock]
            ELSE r : r \in chat_cache}
    ELSE chat_cache \cup
      {[question_hash |-> hashQuestion(question), answer_text |-> answer,
        hit_count |-> 1, last_accessed_at |-> clock, expires_at |-> clock + CacheTTL]}

\* Mutant of QuotaExceeded: the limit applies from the fourth question on.
QuotaExceeded_OneMore(registered, qUsed) == ~registered /\ qUsed >= FreeQuestions + 1

\* if (!registered && qUsed >= 2) of line 61
QuotaExceeded(registered, qUsed) == ~registered /\ qUsed >= FreeQuestions

\* Mutant of Respond: the counter is incremented for every visitor.
Respond_CountsEveryone(v) ==
  [v EXCEPT !.pc = "done", !.lookup = "none", !.resp = "200",
            !.newQUsed = v.qUsed + 1]

\* Mutant of Respond: the counter is sent back as it came.
Respond_KeepsCount(v) ==
  [v EXCEPT !.pc = "done", !.lookup = "none", !.resp = "200",
            !.newQUsed = v.qUsed]

\* The 200 response with the answer: qUsed of the body, and the q_used cookie
\* an unregistered visitor is sent.
Respond(v) ==
  [v EXCEPT !.pc = "done", !.lookup = "none", !.resp = "200",
            !.newQUsed = IF v.registered THEN v.qUsed ELSE v.qUsed + 1]

\* Mutant of checkRateLimit: only a limiter that allows lets a request pass.
checkRateLimit_FailsClosed(limiter) == limiter = "allows"

\* checkRateLimit(rateLimiter, identifier).success: true without a limiter,
\* the verdict of limit(), true when limit() throws
checkRateLimit(limiter) ==
  IF limiter = "unconfigured" THEN TRUE
  ELSE IF limiter = "unreachable" THEN TRUE
  ELSE limiter = "allows"

\* Validation of the message, the cookies, checkRateLimit, the quota test.
FreeChatStart(p, c) ==
  /\ visit[p].pc = "idle"
  /\ started < c.maxVisits
  /\ started' = started + 1
  /\ \E message \in c.questions, qUsed \in c.qUsed, registered \in c.registered,
        limiter \in c.rateLimit :
       LET v == [NoVisit EXCEPT !.message = message, !.qUsed = qUsed,
                                !.registered = registered]
           w == [v EXCEPT !.limiter = limiter, !.success = checkRateLimit(limiter)]
       IN visit' = [visit EXCEPT ![p] =
            IF trim(message) = <<>> THEN [v EXCEPT !.pc = "done", !.resp = "400"]
            ELSE IF ~w.success THEN [w EXCEPT !.pc = "done", !.resp = "429"]
            ELSE IF QuotaExceeded(registered, qUsed)
              THEN [w EXCEPT !.pc = "done", !.resp = "needSignup"]
            ELSE [w EXCEPT !.pc = "get_cached"]]
  /\ UNCHANGED <<funnel, accounts, chat_cache, clock>>

\* getCachedAnswer, the SELECT: no row returns null (a miss)
GetCachedAnswer(p) ==
  /\ visit[p].pc = "get_cached"
  /\ LET rows == CacheHit(visit[p].message)
     IN visit' = [visit EXCEPT ![p] =
          IF rows = {} THEN [visit[p] EXCEPT !.pc = "openai", !.lookup = "miss"]
          ELSE [visit[p] EXCEPT !.pc = "cache_touch", !.lookup = "hit",
                                !.answer = Row(rows).answer_text]]
  /\ UNCHANGED <<funnel, accounts, chat_cache, clock, started>>

\* getCachedAnswer, the UPDATE of the statistics; then the 200 response
GetCachedAnswerTouch(p) ==
  /\ visit[p].pc = "cache_touch"
  /\ chat_cache' = CacheTouch(visit[p].message)
  /\ visit' = [visit EXCEPT ![p] = Respond([visit[p] EXCEPT !.fromCache = TRUE])]
  /\ UNCHANGED <<funnel, accounts, clock, started>>

\* Mutant of LookupFailed: the error of the cache ends the request.
LookupFailed_Propagates(v) ==
  [v EXCEPT !.pc = "done", !.lookup = "error", !.answer = NULL, !.resp = "500"]

\* The catch of getCachedAnswer returns null, and the handler goes on as
\* after a miss.
LookupFailed(v) == [v EXCEPT !.pc = "openai", !.lookup = "error", !.answer = NULL]

\* getCachedAnswer when a statement throws: the catch returns null
GetCachedAnswerFails(p) ==
  /\ visit[p].pc \in {"get_cached", "cache_touch"}
  /\ visit' = [visit EXCEPT ![p] = LookupFailed(visit[p])]
  /\ UNCHANGED <<funnel, accounts, chat_cache, clock, started>>

\* fetch of the chat completion: an answer, or a non-ok response (500)
ChatCompletion(p) ==
  /\ visit[p].pc = "openai"
  /\ \E ok \in BOOLEAN, answer \in Answers :
       visit' = [visit EXCEPT ![p] =
         IF ok THEN [visit[p] EXCEPT !.pc = "save_cached", !.lookup = "none",
                                     !.answer = answer]
         ELSE [visit[p] EXCEPT !.pc = "done", !.lookup = "none", !.resp = "500"]]
  /\ UNCHANGED <<funnel, accounts, chat_cache, clock, started>>

\* saveCachedAnswer(message, answer); then the 200 response
SaveCachedAnswer(p) ==
  /\ visit[p].pc = "save_cached"
  /\ chat_cache' = CacheUpsert(visit[p].message, visit[p].answer)
  /\ visit' = [visit EXCEPT ![p] = Respond(visit[p])]
  /\ UNCHANGED <<funnel, accounts, clock, started>>

\* saveCachedAnswer when the INSERT throws: the catch swallows the error
SaveCachedAnswerFails(p) ==
  /\ visit[p].pc = "save_cached"
  /\ visit' = [visit EXCEPT ![p] = Respond(visit[p])]
  /\ UNCHANGED <<funnel, accounts, chat_cache, clock, started>>

\* The response is delivered; the slot is free for the next request.
VisitFinish(p) ==
  /\ visit[p].pc = "done"
  /\ visit' = [visit EXCEPT ![p] = NoVisit]
  /\ UNCHANGED <<funnel, accounts, chat_cache, clock, started>>

\* cleanExpiredCache, called by the cache statistics endpoint with clean=true:
\* DELETE FROM chat_cache WHERE expires_at < CURRENT_TIMESTAMP
CleanExpiredCache ==
  /\ chat_cache' = {r \in chat_cache : ~(r.expires_at < clock)}
  /\ UNCHANGED <<funnel, accounts, clock, visit, started>>

\* Time passes at the database.
Tick ==
  /\ clock < MaxClock
  /\ clock' = clock + 1
  /\ UNCHANGED <<funnel, accounts, chat_cache, visit, started>>

\* ------------------------------------------------------------------ accounts
\* api/signup (action register) and the users table of lib/db.js.  A users
\* row keeps id and email; names, hash and timestamps are read by no
\* modelled statement.

\* The other state a signup request leaves alone.
ledger == <<db, stripe, outbox, chat_cache, clock, visit,
            conversation_sessions, conversation_sessions_id_seq,
            conversation_messages>>

\* findUserByEmail: SELECT * FROM users WHERE email = ... LIMIT 1
findUserByEmail(email) == {r \in users : r.email = email}

\* INSERT INTO users without the UNIQUE constraint on email
InsertUser_NoUnique(email) == TRUE

\* Whether INSERT INTO users is accepted: email is UNIQUE
InsertUser(email) == findUserByEmail(email) = {}

\* The row a successful INSERT adds; id is the next value of the SERIAL
NewUser(email) == [id |-> Cardinality(users) + 1, email |-> email]

\* handleRegister: checkRateLimit(signupRateLimiter), then the validation of
\* the fields (a missing email stands for every rejected form).
RegisterStart(p, c) ==
  /\ req[p].pc = "idle"
  /\ Admit(c)
  /\ \E allowed \in c.rateLimit, email \in c.emails :
       LET r == [Idle EXCEPT !.op = "register", !.email = email]
       IN req' = [req EXCEPT ![p] =
            IF ~allowed THEN Done(r, "429")
            ELSE IF email = NULL THEN Done(r, "400")
            ELSE [r EXCEPT !.pc = "register_find"]]
  /\ UNCHANGED <<ledger, users>>

\* handleRegister: existingUser = await findUserByEmail(email); an existing
\* user is answered 400 'Cet email est déjà utilisé'
RegisterFind(p) ==
  /\ req[p].op = "register" /\ req[p].pc = "register_find"
  /\ req' = [req EXCEPT ![p] =
       IF findUserByEmail(req[p].email) # {} THEN Done(req[p], "400 duplicate")
       ELSE [req[p] EXCEPT !.pc = "add_find"]]
  /\ UNCHANGED <<ledger, users, started>>

\* addUser: existing = await findUserByEmail(email); its Error is rethrown
\* to the catch of the handler, which answers 500
AddUserFind(p) ==
  /\ req[p].op = "register" /\ req[p].pc = "add_find"
  /\ req' = [req EXCEPT ![p] =
       IF findUserByEmail(req[p].email) # {} THEN Done(req[p], "500")
       ELSE [req[p] EXCEPT !.pc = "add_hash"]]
  /\ UNCHANGED <<ledger, users, started>>

\* addUser: passwordHash = await bcrypt.hash(password, SALT_ROUNDS)
AddUserHash(p) ==
  /\ req[p].op = "register" /\ req[p].pc = "add_hash"
  /\ req' = [req EXCEPT ![p].pc = "add_insert"]
  /\ UNCHANGED <<ledger, users, started>>

\* addUser: INSERT INTO users ... RETURNING; a rejected INSERT throws to the
\* catch of the handler (500), an accepted one is followed by the cookies
\* and the 200 response (the webhook call changes no state and cannot fail
\* the request)
AddUserInsert(p) ==
  /\ req[p].op = "register" /\ req[p].pc = "add_insert"
  /\ IF InsertUser(req[p].email)
       THEN /\ users' = users \cup {NewUser(req[p].email)}
            /\ req' = [req EXCEPT ![p] = Done(req[p], "200")]
       ELSE /\ users' = users
            /\ req' = [req EXCEPT ![p] = Done(req[p], "500")]
  /\ UNCHANGED <<ledger, started>>

\* ------------------------------------------------------------------ conversations
\* The saved conversations of lib/db.js and their deletion by the admin
\* endpoint.  A conversation_sessions row keeps id and message_count, a
\* conversation_messages row session_id and role; owner, title, content and
\* timestamps are read by no modelled statement.

\* The other state a conversation call leaves alone.
outside == <<db, stripe, outbox, chat_cache, clock, visit, users>>

\* The values of the role argument; the column accepts the first two.
Roles == {"user", "assistant", "system"}

\* CHECK (role IN ('user', 'assistant'))
RoleCheck(role) == role \in {"user", "assistant"}

\* The rows of a session id.
ConversationSession(sessionId) == {r \in conversation_sessions : r.id = sessionId}

\* The messages left by DELETE FROM conversation_messages WHERE session_id =
\* ..., which is also the cascade of a deleted session.
MessagesWithout(sessionId) ==
  SelectSeq(conversation_messages, LAMBDA m : m.session_id # sessionId)

\* A message of every role is counted
CountsMessage_EveryRole(role) == TRUE

\* addConversationMessage: if (role === 'user') chooses the UPDATE that
\* increments message_count
CountsMessage(role) == role = "user"

\* createConversationSession / createAnonymousConversationSession: INSERT
\* INTO conversation_sessions (..., message_count) VALUES (..., 0) RETURNING id
CreateConversationSession ==
  /\ conversation_sessions_id_seq < MaxSessions
  /\ conversation_sessions_id_seq' = conversation_sessions_id_seq + 1
  /\ conversation_sessions' = conversation_sessions \cup
       {[id |-> conversation_sessions_id_seq + 1, message_count |-> 0]}
  /\ UNCHANGED <<outside, req, started, conversation_messages>>

\* addConversationMessage, the INSERT: a session id that does not exist or a
\* role the column rejects makes it throw
AddConversationMessage(p, c) ==
  /\ req[p].pc = "idle"
  /\ Admit(c)
  /\ \E sessionId \in c.sessionIds, role \in c.roles :
       LET r == [Idle EXCEPT !.op = "addConversationMessage",
                             !.sessionId = sessionId, !.role = role]
       IN IF ConversationSession(sessionId) # {} /\ RoleCheck(role)
            THEN /\ conversation_messages' = Append(conversation_messages,
                       [session_id |-> sessionId, role |-> role])
                 /\ req' = [req EXCEPT ![p] = [r EXCEPT !.pc = "update_session"]]
            ELSE /\ conversation_messages' = conversation_messages
                 /\ req' = [req EXCEPT ![p] = Done(r, "throws")]
  /\ UNCHANGED <<outside, conversation_sessions, conversation_sessions_id_seq>>

\* addConversationMessage, the UPDATE of the session: last_message_at, and
\* message_count + 1 for a user message; then it returns the message id
UpdateConversationSession(p) ==
  /\ req[p].op = "addConversationMessage" /\ req[p].pc = "update_session"
  /\ conversation_sessions' =
       {IF r.id = req[p].sessionId /\ CountsMessage(req[p].role)
          THEN [r EXCEPT !.message_count = @ + 1] ELSE r : r \in conversation_sessions}
  /\ req' = [req EXCEPT ![p] = Done(req[p], "returns")]
  /\ UNCHANGED <<outside, started, conversation_sessions_id_seq, conversation_messages>>

\* deleteConversationSession by the owner of an existing session: DELETE FROM
\* conversation_sessions, with ON DELETE CASCADE on the messages
DeleteConversationSession ==
  /\ \E r \in conversation_sessions :
       /\ conversation_sessions' = conversation_sessions \ {r}
       /\ conversation_messages' = MessagesWithout(r.id)
  /\ UNCHANGED <<outside, req, started, conversation_sessions_id_seq>>

\* handleDelete of the admin endpoint: DELETE FROM conversation_messages
\* WHERE session_id = ...
AdminDeleteMessages(p, c) ==
  /\ req[p].pc = "idle"
  /\ Admit(c)
  /\ \E sessionId \in c.sessionIds :
       /\ conversation_messages' = MessagesWithout(sessionId)
       /\ req' = [req EXCEPT ![p] = [Idle EXCEPT !.op = "handleDelete",
                    !.pc = "delete_session", !.sessionId = sessionId]]
  /\ UNCHANGED <<outside, conversation_sessions, conversation_sessions_id_seq>>

\* handleDelete: DELETE FROM conversation_sessions WHERE id = ...; then 200
AdminDeleteSession(p) ==
  /\ req[p].op = "handleDelete" /\ req[p].pc = "delete_session"
  /\ conversation_sessions' = conversation_sessions \ ConversationSession(req[p].sessionId)
  /\ conversation_messages' = MessagesWithout(req[p].sessionId)
  /\ req' = [req EXCEPT ![p] = Done(req[p], "200")]
  /\ UNCHANGED <<outside, started, conversation_sessions_id_seq>>

\* ------------------------------------------------------------------ specifications

\* What the clients of a specification send: the chat bound, the outcomes of
\* the rate limiter, the expertise and amount of a payment request, the email
\* argument of a migration.
Clients ==
  [maxLog |-> MaxLog, rateLimit |-> {TRUE}, expertises |-> {"classique"},
   amounts |-> {2900}, emails |-> {NULL}, maxRequests |-> MaxRequests, counted |-> TRUE]

LedgerClients ==
  [maxLog |-> MaxLogSeq, rateLimit |-> BOOLEAN, expertises |-> {"classique", "premium"},
   amounts |-> {2900, 4900}, emails |-> Emails \cup {NULL}, maxRequests |-> 1,
   counted |-> FALSE]

\* The steps of the requests slot p can run, for clients c.
Step(p, c) ==
  \/ CreateSession(p, c)
  \/ ChatStart(p, c)
  \/ ChatGetUnpaid(p)
  \/ UpdateUnpaidSessionEmail(p)
  \/ MoveGetPaid(p)
  \/ MoveInsert(p)
  \/ MoveGetMsgs(p)
  \/ MoveCopy(p)
  \/ ChatAssistant(p)
  \/ SaveGetUnpaid(p)
  \/ SaveUser(p)
  \/ SaveAssistant(p)
  \/ IntentStart(p, c)
  \/ IntentCreate(p)
  \/ IntentUpdate(p)
  \/ VerifyStart(p, c)
  \/ VerifyRetrieve(p)
  \/ VerifyMark(p)
  \/ VerifyGetMsgs(p)
  \/ VerifySend(p)
  \/ VerifyMarkSent(p)
  \/ MigrateStart(p, c)
  \/ MigrateGetMsgs(p)
  \/ MigrateUpsert(p)
  \/ MigrateGetPaid(p)
  \/ MigrateCopy(p)
  \/ MigrateMark(p)
  \/ Finish(p)

\* Concurrent requests: every slot runs handlers, interleaved at the awaits.
Next ==
  \/ \E p \in Procs : Step(p, Clients)
  \/ CustomerPays

Spec == Init /\ [][Next]_vars

\* One caller at a time: requests and direct ledger calls, run to completion.
LedgerNext ==
  \/ Step(Caller, LedgerClients)
  \/ CallMarkPaidSessionCompleted(Caller, LedgerClients)
  \/ CustomerPays

LedgerSpec == Init /\ [][LedgerNext]_vars

\* The callers of the exported functions of lib/db.js.
FunctionCallers ==
  [maxLog |-> 0, rateLimit |-> {TRUE}, expertises |-> {"classique"}, amounts |-> {2900},
   emails |-> {NULL, "jean@example.com"}, maxRequests |-> MaxCalls, counted |-> TRUE]

\* The steps of the exported functions slot p can run.
FunctionStep(p, c) ==
  \/ CreateSession(p, c)
  \/ CallAddPaidMessage(p, c)
  \/ CallMoveSessionToUnpaid(p, c)
  \/ MoveGetPaid(p)
  \/ MoveInsert(p)
  \/ MoveGetMsgs(p)
  \/ MoveCopy(p)
  \/ MigrateStart(p, c)
  \/ MigrateGetMsgs(p)
  \/ MigrateUpsert(p)
  \/ MigrateGetPaid(p)
  \/ MigrateCopy(p)
  \/ MigrateMark(p)
  \/ MarkPaidSessionFirstMessage(p, c)
  \/ MarkUnpaidSessionFirstMessage(p, c)
  \/ FirstMessageIncrement(p)
  \/ Finish(p)

\* Concurrent callers of the exported functions, interleaved at the awaits.
FunctionsNext == \E p \in Procs : FunctionStep(p, FunctionCallers)

FunctionsSpec == Init /\ [][FunctionsNext]_vars

\* The visitors of the funnel chat when the storage may fail.
ChatFaultClients ==
  [maxLog |-> MaxLog, rateLimit |-> BOOLEAN, expertises |-> {"classique"}, amounts |-> {2900},
   emails |-> {NULL}, maxRequests |-> 1, counted |-> FALSE]

\* The steps of create-session and of the funnel chat slot p can run.
ChatStep(p, c) ==
  \/ CreateSession(p, c)
  \/ ChatStart(p, c)
  \/ ChatGetUnpaid(p)
  \/ UpdateUnpaidSessionEmail(p)
  \/ MoveGetPaid(p)
  \/ MoveInsert(p)
  \/ MoveGetMsgs(p)
  \/ MoveCopy(p)
  \/ ChatAssistant(p)
  \/ SaveGetUnpaid(p)
  \/ SaveUser(p)
  \/ SaveAssistant(p)
  \/ Finish(p)

\* One visitor at a time; any statement of the save may throw.
ChatFaultNext ==
  \/ ChatStep(Caller, ChatFaultClients)
  \/ SaveFails(Caller)

ChatFaultSpec == Init /\ [][ChatFaultNext]_vars

\* One visitor of the funnel chat and a caller of migrateUnpaidToPaidSession,
\* one at a time; any statement of the migration may throw.
MigrationClients ==
  [maxLog |-> MaxLog, rateLimit |-> {TRUE}, expertises |-> {"classique"}, amounts |-> {2900},
   emails |-> {NULL}, maxRequests |-> MaxCalls, counted |-> TRUE]

MigrationNext ==
  \/ ChatStep(Caller, MigrationClients)
  \/ MigrateStart(Caller, MigrationClients)
  \/ MigrateGetMsgs(Caller)
  \/ MigrateUpsert(Caller)
  \/ MigrateGetPaid(Caller)
  \/ MigrateCopy(Caller)
  \/ MigrateMark(Caller)
  \/ MigrateFails(Caller)

MigrationSpec == Init /\ [][MigrationNext]_vars

\* The requests and the ledger calls that touch session_statistics, with the
\* rest of the funnel: every operation of the ledger, one caller at a time.
CounterClients ==
  [maxLog |-> MaxLog, rateLimit |-> {TRUE}, expertises |-> {"classique"}, amounts |-> {2900},
   emails |-> {NULL}, maxRequests |-> MaxCalls, counted |-> TRUE]

CountersNext ==
  \/ Step(Caller, CounterClients)
  \/ CallMarkPaidSessionCompleted(Caller, CounterClients)
  \/ MarkPaidSessionFirstMessage(Caller, CounterClients)
  \/ MarkUnpaidSessionFirstMessage(Caller, CounterClients)
  \/ FirstMessageIncrement(Caller)
  \/ CustomerPays

CountersSpec == Init /\ [][CountersNext]_vars

\* The funnel chat of one visitor with the assistant exchange statement by
\* statement.
PollStep(p, c) ==
  \/ CreateSession(p, c)
  \/ ChatStart(p, c)
  \/ ChatGetUnpaid(p)
  \/ UpdateUnpaidSessionEmail(p)
  \/ MoveGetPaid(p)
  \/ MoveInsert(p)
  \/ MoveGetMsgs(p)
  \/ MoveCopy(p)
  \/ AssistantAddMessage(p)
  \/ AssistantCreateRun(p)
  \/ PollStatus(p)
  \/ AssistantGetMessages(p)
  \/ SaveGetUnpaid(p)
  \/ SaveUser(p)
  \/ SaveAssistant(p)
  \/ Finish(p)

PollNext == PollStep(Caller, ChatFaultClients)

PollSpec == Init /\ [][PollNext]_vars

\* Every wait of the loop ends and every GET of the run gets a response.
PollFairSpec == PollSpec /\ WF_vars(PollStatus(Caller))

\* The free-tier visitors: their questions, their q_used and registered
\* cookies, the outcomes of the rate limiter, and how many requests they send.
FreeClients ==
  [questions |-> Questions, qUsed |-> 0..MaxQUsed, registered |-> BOOLEAN,
   rateLimit |-> {"allows", "rejects"}, maxVisits |-> MaxVisits]

\* The steps of the free-tier chat requests slot p can run.
FreeStep(p, c) ==
  \/ FreeChatStart(p, c)
  \/ GetCachedAnswer(p)
  \/ GetCachedAnswerTouch(p)
  \/ GetCachedAnswerFails(p)
  \/ ChatCompletion(p)
  \/ SaveCachedAnswer(p)
  \/ SaveCachedAnswerFails(p)
  \/ VisitFinish(p)

\* Concurrent free-tier chat requests, the cleaning of the cache, and the
\* passing of time.
FreeNext ==
  \/ \E p \in Procs : FreeStep(p, FreeClients)
  \/ CleanExpiredCache
  \/ Tick

FreeSpec == Init /\ [][FreeNext]_vars

\* Registered visitors who ask variants of the same questions, within the
\* lifetime of the cache entries.
VariantClients ==
  [questions |-> Texts, qUsed |-> {0}, registered |-> {TRUE}, rateLimit |-> {"allows"},
   maxVisits |-> MaxLookups]

VariantNext == \E p \in Procs : FreeStep(p, VariantClients)

VariantSpec == Init /\ [][VariantNext]_vars

\* Visitors of a deployment whose rate limiter may be missing or unreachable.
LimiterClients ==
  [questions |-> Questions, qUsed |-> 0..MaxQUsed, registered |-> BOOLEAN,
   rateLimit |-> RateLimiters, maxVisits |-> MaxLookups]

LimiterNext == \E p \in Procs : FreeStep(p, LimiterClients)

LimiterSpec == Init /\ [][LimiterNext]_vars

\* Visitors who sign up, several at a time, some with the same email.
RegisterClients ==
  [rateLimit |-> BOOLEAN, emails |-> Emails \cup {NULL},
   maxRequests |-> MaxSignups, counted |-> TRUE]

RegisterStep(p, c) ==
  \/ RegisterStart(p, c)
  \/ RegisterFind(p)
  \/ AddUserFind(p)
  \/ AddUserHash(p)
  \/ AddUserInsert(p)
  \/ Finish(p)

RegisterNext == \E p \in Procs : RegisterStep(p, RegisterClients)

RegisterSpec == Init /\ [][RegisterNext]_vars

\* The callers that write to the saved conversations, several at a time.
ConversationClients ==
  [sessionIds |-> 1..MaxSessions, roles |-> Roles,
   maxRequests |-> MaxMessages, counted |-> TRUE]

ConversationStep(p, c) ==
  \/ AddConversationMessage(p, c)
  \/ UpdateConversationSession(p)
  \/ AdminDeleteMessages(p, c)
  \/ AdminDeleteSession(p)
  \/ Finish(p)

ConversationNext ==
  \/ \E p \in Procs : ConversationStep(p, ConversationClients)
  \/ CreateConversationSession
  \/ DeleteConversationSession

ConversationSpec == Init /\ [][ConversationNext]_vars

\* ------------------------------------------------------------------ claims

\* paid_sessions has no column that records a migration and no statement
\* deletes or marks a paid row: a paid row is never marked migrated.
PaidSessionMigrated(r) == FALSE

PaidAuthoritative(u) ==
  \E r \in paid_sessions : r.session_uuid = u /\ ~PaidSessionMigrated(r)

UnpaidAuthoritative(u) ==
  \E r \in unpaid_sessions : r.session_uuid = u /\ ~r.moved_to_paid

Created(u) == getPaidSession(u) # {} \/ \E r \in unpaid_sessions : r.session_uuid = u

IsPaid(u) == \E r \in paid_sessions : r.session_uuid = u /\ r.paid

\* The (role, content) pairs of a message log.
Contents(log) == {<<log[i].role, log[i].content>> : i \in 1..Len(log)}

\* C1. Migration invariant: every created funnel uuid has exactly one
\* authoritative row, a paid row not marked migrated or an unpaid row with
\* moved_to_paid = FALSE; never none and never both.
C1_ExactlyOneAuthoritativeRow ==
  \A u \in UUIDs : Created(u) => (PaidAuthoritative(u) # UnpaidAuthoritative(u))

\* C2. Payment idempotence of markPaidSessionCompleted: a call for an existing
\* session returns without error and leaves paid = TRUE; it increments the
\* payment-completed counter when the session was unpaid and leaves the counter
\* alone when the session was already paid (the second of two calls in a row).
C2_ConfirmTwiceCountsOnce ==
  [][\A u \in UUIDs :
       (/\ req[Caller].pc = "idle"
        /\ req'[Caller].op = "confirm"
        /\ req'[Caller].uuid = u
        /\ getPaidSession(u) # {})
       => /\ req'[Caller].resp = "returned"
          /\ \E r \in paid_sessions' : r.session_uuid = u /\ r.paid
          /\ session_statistics'.payments_completed_count =
               session_statistics.payments_completed_count + (IF IsPaid(u) THEN 0 ELSE 1)]_vars

\* Number of calls made to the email sender for payment intent pi.
Dispatches(pi) == Cardinality({i \in 1..Len(outbox) : outbox[i].paymentIntentId = pi})

\* C3. Double confirmation at the request level: under any interleaving of
\* verify-payment requests for one session and one succeeded intent, every
\* request that saw the intent succeeded answers 200, the payment-completed
\* counter counts each paid session once, and the analysis email of an intent
\* is dispatched at most once.
C3_DoubleVerifyCountsOnce ==
  /\ \A p \in Procs :
       (req[p].op = "verify" /\ req[p].pc = "done" /\ req[p].status = "succeeded")
       => req[p].resp \in {"200", "200 emailSent"}
  /\ session_statistics.payments_completed_count <= Cardinality({u \in UUIDs : IsPaid(u)})
  /\ \A pi \in PaymentIntents : Dispatches(pi) <= 1

\* C4. The paid flag is irreversible: a session that has paid = TRUE has
\* paid = TRUE after every step of every operation.
C4_PaidIrreversible ==
  [][\A u \in UUIDs : IsPaid(u) => IsPaid(u)']_vars

\* C4 witness: migrateUnpaidToPaidSession has just run its upsert on a session
\* that was already paid, and the session is still paid.
C4_Witness ==
  /\ req[Caller].op = "migrate"
  /\ req[Caller].pc = "migrate_get_paid"
  /\ IsPaid(req[Caller].uuid)

\* C5. paid becomes TRUE only in the markPaidSessionCompleted step of a
\* verify-payment request whose client-supplied intent id equals the id stored
\* on the session the request read, and whose retrieval from the payment
\* processor reported 'succeeded' for that intent.
C5_PaidOnlyAfterVerifiedSuccess ==
  [][\A u \in UUIDs :
       (getPaidSession(u) # {} /\ ~IsPaid(u) /\ IsPaid(u)')
       => \E p \in Procs :
            /\ req[p].op = "verify"
            /\ req[p].pc = "verify_mark"
            /\ req'[p].pc # "verify_mark"
            /\ req[p].uuid = u
            /\ req[p].status = "succeeded"
            /\ stripe[req[p].pi] = "succeeded"
            /\ Row(req[p].session).payment_intent_id = req[p].pi]_vars

\* C5 witness: a verify-payment request has confirmed a payment.
C5_Witness ==
  \E p \in Procs :
    /\ req[p].op = "verify"
    /\ req[p].pc = "done"
    /\ req[p].resp = "200"
    /\ IsPaid(req[p].uuid)

\* The uuids whose email has been captured (an unpaid row was made for them).
Captured == {u \in UUIDs : \E r \in unpaid_sessions : r.session_uuid = u}

\* C6. Email capture counts once per uuid: the email-collected counter never
\* exceeds the number of uuids whose email was captured, and between requests
\* it equals that number, however many email-bearing messages arrived.
C6_EmailCountedOncePerUuid ==
  /\ session_statistics.emails_collected_count <= Cardinality(Captured)
  /\ req[Caller].pc = "idle" => session_statistics.emails_collected_count = Cardinality(Captured)

\* C7. First email capture: right after the capture made for an email-bearing
\* message on a session that had no unpaid row, the uuid resolves to an unpaid
\* row holding that email and the email-collected counter counts it.
C7_FirstCaptureStoredAndCounted ==
  (/\ req[Caller].op = "chat"
   /\ req[Caller].pc = "chat_assistant"
   /\ req[Caller].capture = "moved"
   /\ ~req[Caller].conflict)
  => /\ getUnpaidSession(req[Caller].uuid) # {}
     /\ Row(getUnpaidSession(req[Caller].uuid)).email = EmailMatch(req[Caller].message)
     /\ session_statistics.emails_collected_count = Cardinality(Captured)

\* C8. Email capture re-entrancy on rows: a uuid never has two unpaid rows,
\* and a capture that found the unpaid row existing only updates its email: it
\* copies no message.
C8_OneRowAndNoCopyOnExisting ==
  /\ \A u \in UUIDs : Cardinality({r \in unpaid_sessions : r.session_uuid = u}) <= 1
  /\ \A p \in Procs : req[p].pc = "move_copy" => ~req[p].conflict

\* C9. After verify-payment confirmed the payment, the uuid resolves via the
\* paid table with paid = TRUE: getUnpaidSession selects no row for it.
C9_PaidSessionResolvesViaPaidTable ==
  (/\ req[Caller].op = "verify"
   /\ req[Caller].pc = "done"
   /\ req[Caller].resp \in {"200", "200 emailSent"})
  => /\ IsPaid(req[Caller].uuid)
     /\ getUnpaidSession(req[Caller].uuid) = {}

\* The session went: messages, then an email captured from a visitor message,
\* then more messages (saved to the unpaid log after the copied ones).
WentThroughFunnel(u) ==
  /\ Len(paid_messages[u]) >= 2
  /\ \E r \in unpaid_sessions : r.session_uuid = u
  /\ Len(unpaid_messages[u]) >= Len(paid_messages[u]) + 4

\* C10. End-to-end delivery: when verify-payment confirmed the payment of a
\* session that went through the funnel, an analysis email was handed to the
\* email sender for the operations address, and its transcript holds every
\* visitor and assistant message of the session.
C10_AnalysisEmailHasFullTranscript ==
  (/\ req[Caller].op = "verify"
   /\ req[Caller].pc = "done"
   /\ req[Caller].resp \in {"200", "200 emailSent"}
   /\ WentThroughFunnel(req[Caller].uuid))
  => \E i \in 1..Len(outbox) :
       /\ outbox[i].to = ADMIN_EMAIL
       /\ outbox[i].paymentIntentId = req[Caller].pi
       /\ Contents(paid_messages[req[Caller].uuid]) \cup Contents(unpaid_messages[req[Caller].uuid])
            \subseteq Contents(outbox[i].messages)

\* Rows of either table whose first-message flag is set.
FirstMessageFlags ==
  Cardinality({r \in paid_sessions : r.first_message_sent})
    + Cardinality({r \in unpaid_sessions : r.first_message_sent})

\* C11. First-message dedup: however many times markPaidSessionFirstMessage
\* and markUnpaidSessionFirstMessage are called, the first-message counter
\* (with the increments of calls that have set a flag and are yet to count it)
\* equals the number of rows whose flag is set: one increment per row, none
\* for a call that found the flag set.
C11_FirstMessageCountedOncePerRow ==
  session_statistics.first_messages_count
    + Cardinality({p \in Procs : req[p].pc = "first_increment"})
  = FirstMessageFlags

\* C11 witness: a call on a row whose flag was already set has returned null,
\* after an earlier call was counted.
C11_Witness ==
  /\ \E p \in Procs : req[p].op = "first_paid" /\ req[p].pc = "done" /\ req[p].resp = "null"
  /\ \E r \in paid_sessions : r.first_message_sent
  /\ session_statistics.first_messages_count = 1

\* Number of rows of a message log equal to row m.
Copies(log, m) == Cardinality({i \in 1..Len(log) : log[i] = m})

\* migrateUnpaidToPaidSession copies a row with its created_at, so a source
\* row copied twice shows as two equal rows of the paid log.
MigratedOnce(u) ==
  \A i \in 1..Len(unpaid_messages[u]) : Copies(paid_messages[u], unpaid_messages[u][i]) <= 1

\* Calls of moveSessionToUnpaid for u that are in their copy loop.
Copying(u) == {p \in Procs : req[p].uuid = u /\ req[p].pc = "move_copy"}

\* C12. Of two concurrent migration attempts for one uuid at most one
\* performs the copy: two calls of moveSessionToUnpaid are never in their
\* copy loops together, and the paid log never holds two copies of one unpaid
\* message after concurrent calls of migrateUnpaidToPaidSession.
C12_ConcurrentMigrationsCopyOnce ==
  \A u \in UUIDs :
    /\ Cardinality(Copying(u)) <= 1
    /\ MigratedOnce(u)

\* log2 is log1 with one more row, of the given role and content.
Appended(log1, log2, role, content) ==
  /\ Len(log2) = Len(log1) + 1
  /\ SubSeq(log2, 1, Len(log1)) = log1
  /\ log2[Len(log2)].role = role
  /\ log2[Len(log2)].content = content

\* The save step of request p, from pc1 to pc2, appends (role, content) to the
\* unpaid log if the lookup of the save found an unpaid row, else to the paid
\* log, and leaves the other log alone.
SavedToResolvedLog(p, pc1, pc2, role, content) ==
  (req[p].pc = pc1 /\ req'[p].pc = pc2)
  => LET u == req[p].uuid
     IN IF req[p].unpaidSession # {}
          THEN /\ Appended(unpaid_messages[u], unpaid_messages'[u], role, content)
               /\ paid_messages' = paid_messages
          ELSE /\ Appended(paid_messages[u], paid_messages'[u], role, content)
               /\ unpaid_messages' = unpaid_messages

\* C13. appendMessage resolves unpaid first, then paid: the lookup that opens
\* the save of a funnel chat request finds a row exactly when the uuid has an
\* unpaid row with moved_to_paid = FALSE, the visitor message and then the
\* assistant message both go to the unpaid log if it found one and both to the
\* paid log otherwise, and neither is written to the other log.
C13_SaveResolvesUnpaidFirst ==
  [][\A p \in Procs :
       /\ (req[p].pc = "save_get_unpaid" /\ req'[p].pc = "save_user")
          => ((req'[p].unpaidSession # {}) <=> UnpaidAuthoritative(req[p].uuid))
       /\ SavedToResolvedLog(p, "save_user", "save_assistant", "user", req[p].message)
       /\ (req[p].pc = "save_user" /\ req'[p].pc = "save_assistant")
          => req'[p].unpaidSession = req[p].unpaidSession
       /\ SavedToResolvedLog(p, "save_assistant", "done", "assistant", req[p].answer)]_vars

\* C13 witness: a request has saved its exchange to the paid log although the
\* uuid has an unpaid row, one that is marked moved.
C13_Witness ==
  \E p \in Procs :
    /\ req[p].op = "chat" /\ req[p].pc = "done" /\ req[p].resp = "200"
    /\ \E r \in unpaid_sessions : r.session_uuid = req[p].uuid /\ r.moved_to_paid
    /\ Len(paid_messages[req[p].uuid]) > Len(unpaid_messages[req[p].uuid]) + 1

\* expertise, amount and payment_intent_id of the paid rows
PaymentSetup ==
  {[session_uuid |-> r.session_uuid, expertise |-> r.expertise, amount |-> r.amount,
    payment_intent_id |-> r.payment_intent_id] : r \in paid_sessions}

\* C14. A create-payment-intent request for an unknown uuid answers 404
\* ('Session non trouvee'), one for a session that is paid when the handler
\* reads it answers 400 ('Cette session est deja payee'); neither creates an
\* intent nor reaches updatePaidSessionPayment, so expertise, amount and
\* payment_intent_id stay as stored.
C14_PaymentSetupRefused ==
  [][\A p \in Procs, u \in UUIDs :
       (/\ req[p].pc = "idle"
        /\ req'[p].op = "intent"
        /\ req'[p].uuid = u
        /\ req'[p].resp # "400")
       => /\ getPaidSession(u) = {} => req'[p].resp = "404"
          /\ IsPaid(u) => req'[p].resp = "400 paid"
          /\ (getPaidSession(u) = {} \/ IsPaid(u))
             => /\ req'[p].pc = "done"
                /\ PaymentSetup' = PaymentSetup
                /\ stripe' = stripe]_vars

\* C14 witness: a request for a paid session with its payment set up has been
\* refused.
C14_Witness ==
  \E p \in Procs :
    /\ req[p].op = "intent" /\ req[p].pc = "done" /\ req[p].resp = "400 paid"
    /\ \E r \in paid_sessions :
         r.session_uuid = req[p].uuid /\ r.paid /\ r.payment_intent_id # NoIntent

\* The step is a call of markPaidSessionCompleted for u by the caller: a
\* direct call, or the one verify-payment makes.
ConfirmsPayment(u) ==
  \/ req[Caller].pc = "idle" /\ req'[Caller].op = "confirm" /\ req'[Caller].uuid = u
  \/ req[Caller].pc = "verify_mark" /\ req'[Caller].pc # "verify_mark" /\ req[Caller].uuid = u

\* C15. markPaidSessionCompleted never overwrites an email: a call for a
\* session whose row holds an email leaves that email as it is, whatever
\* email argument it is given.
C15_ConfirmKeepsExistingEmail ==
  [][\A u \in UUIDs :
       (/\ ConfirmsPayment(u)
        /\ getPaidSession(u) # {}
        /\ Row(getPaidSession(u)).email # NULL)
       => \A r \in paid_sessions' :
            r.session_uuid = u => r.email = Row(getPaidSession(u)).email]_vars

\* Slot p starts a call of migrateUnpaidToPaidSession for u in this step.
StartsMigration(p, u) ==
  req[p].pc = "idle" /\ req'[p].op = "migrate" /\ req'[p].uuid = u

\* The call slot p started has returned false and has written nothing.
ReturnedFalseNoOp(p) ==
  /\ req'[p].pc = "done"
  /\ req'[p].resp = "false"
  /\ db' = db

\* C16. migrateUnpaidToPaidSession returns false and changes nothing when
\* the uuid has no unpaid row with moved_to_paid = FALSE (it never had a row,
\* or its row is marked moved); so does a call made when another call for the
\* same uuid has just returned true.
C16_MigrateWithoutEligibleRowIsNoOp ==
  [][\A p \in Procs, u \in UUIDs :
       StartsMigration(p, u)
       => /\ ~UnpaidAuthoritative(u) => ReturnedFalseNoOp(p)
          /\ (\E q \in Procs \ {p} :
                req[q].op = "migrate" /\ req[q].pc = "done"
                /\ req[q].resp = "true" /\ req[q].uuid = u)
             => ReturnedFalseNoOp(p)]_vars

\* C16 witness: a call has returned false right after another call for the
\* same uuid returned true.
C16_Witness ==
  \E p \in Procs, q \in Procs :
    /\ req[p].op = "migrate" /\ req[p].pc = "done" /\ req[p].resp = "false"
    /\ req[q].op = "migrate" /\ req[q].pc = "done" /\ req[q].resp = "true"
    /\ req[p].uuid = req[q].uuid

\* C17. A funnel chat request whose assistant call fails or times out answers
\* the generic 500 error and saves nothing: the step that ends the assistant
\* call writes to neither log and, unless it yielded an answer, ends the
\* request with 500; the save is entered only with an answer.
C17_FailedAssistantSavesNothing ==
  [][\A p \in Procs :
       /\ (req[p].pc = "chat_assistant" /\ req'[p].pc # "chat_assistant")
          => /\ paid_messages' = paid_messages
             /\ unpaid_messages' = unpaid_messages
             /\ req'[p].answer # AssistantAnswer
                => req'[p].pc = "done" /\ req'[p].resp = "500"
       /\ req'[p].pc \in {"save_get_unpaid", "save_user", "save_assistant"}
          => req'[p].answer = AssistantAnswer]_vars

\* C17 witness: the assistant call of a second exchange has failed, and the
\* logs hold the first exchange only.
C17_Witness ==
  \E p \in Procs :
    /\ req[p].op = "chat" /\ req[p].pc = "done" /\ req[p].resp = "500"
    /\ Len(paid_messages[req[p].uuid]) = 2
    /\ Len(unpaid_messages[req[p].uuid]) = 0

\* C18. A failure to persist the exchange is not swallowed: a funnel chat
\* request answers 200 from its save only in the step that stored the
\* assistant message, after the visitor message.
C18_SaveFailurePropagates ==
  [][(/\ req[Caller].pc \in {"save_get_unpaid", "save_user", "save_assistant"}
      /\ req'[Caller].pc = "done"
      /\ req'[Caller].resp = "200")
     => LET u == req[Caller].uuid
        IN /\ req[Caller].pc = "save_assistant"
           /\ \/ Appended(unpaid_messages[u], unpaid_messages'[u], "assistant", req[Caller].answer)
              \/ Appended(paid_messages[u], paid_messages'[u], "assistant", req[Caller].answer)]_vars

\* The step is a call of sendAnalysisEmail by the caller that threw.
EmailSendFailed ==
  /\ req[Caller].pc = "verify_send"
  /\ Len(outbox') = Len(outbox) + 1
  /\ ~outbox'[Len(outbox')].delivered

\* C19. An email-sending failure after a confirmed payment is swallowed:
\* verify-payment still answers 200, the row keeps paid = TRUE, the counters
\* and email_sent stay as they were; and email_sent is TRUE only for a
\* session one of whose dispatches was delivered.
C19_EmailFailureSwallowed ==
  [][/\ EmailSendFailed
        => /\ req'[Caller].pc = "done"
           /\ req'[Caller].resp = "200"
           /\ IsPaid(req[Caller].uuid)'
           /\ db' = db
     /\ \A r \in paid_sessions' :
          r.email_sent => \E i \in 1..Len(outbox') : outbox'[i].delivered]_vars

\* C19 witness: verify-payment has answered 200 after its dispatch failed;
\* the session is paid and counted, and its email_sent flag is FALSE.
C19_Witness ==
  /\ req[Caller].op = "verify" /\ req[Caller].pc = "done" /\ req[Caller].resp = "200"
  /\ outbox # <<>> /\ ~outbox[Len(outbox)].delivered
  /\ session_statistics.payments_completed_count = 1
  /\ \E r \in paid_sessions : r.session_uuid = req[Caller].uuid /\ r.paid /\ ~r.email_sent

\* A step in which slot p takes up the request of an unregistered visitor
\* whose q_used cookie is at the free-question limit or above, with a
\* question in its message.
OverQuotaRequest(p) ==
  /\ visit[p].pc = "idle" /\ visit'[p].pc # "idle"
  /\ trim(visit'[p].message) # <<>>
  /\ ~visit'[p].registered
  /\ visit'[p].qUsed >= FreeQuestions

\* C20: the request of an unregistered visitor with q_used of 2 or more ends
\* before the answer cache is read and before the chat completion is called,
\* with the cache as it was; when the rate limiter admitted the request, its
\* response is the register prompt.
C20_OverQuotaGetsRegisterPrompt ==
  [][\A p \in Procs : OverQuotaRequest(p) =>
       /\ visit'[p].pc = "done"
       /\ visit'[p].answer = NULL
       /\ chat_cache' = chat_cache
       /\ visit'[p].success => visit'[p].resp = "needSignup"]_vars

\* C20 witness: a visitor at the limit got the register prompt although the
\* cache holds a live answer to the question.
C20_Witness ==
  \E p \in Procs :
    /\ visit[p].pc = "done" /\ visit[p].resp = "needSignup"
    /\ ~visit[p].registered /\ visit[p].qUsed = FreeQuestions
    /\ CacheHit(visit[p].message) # {}

\* A step in which slot p takes up the request of a registered visitor, with
\* a question in its message, that the rate limiter admits.
RegisteredRequest(p) ==
  /\ visit[p].pc = "idle" /\ visit'[p].pc # "idle"
  /\ trim(visit'[p].message) # <<>>
  /\ visit'[p].registered
  /\ visit'[p].success

\* A step in which the request of slot p gets its response.
Responds(p) == visit[p].pc # "done" /\ visit'[p].pc = "done"

\* C21: for every value of q_used, the admitted request of a registered
\* visitor goes on to the cache lookup instead of the register prompt, and
\* the answer it gets carries the q_used value it came with.
C21_RegisteredNeverBlocked ==
  [][\A p \in Procs :
       /\ RegisteredRequest(p) => visit'[p].pc = "get_cached"
       /\ Responds(p) /\ visit'[p].registered =>
            /\ visit'[p].resp # "needSignup"
            /\ visit'[p].resp = "200" =>
                 visit'[p].answer \in Answers /\ visit'[p].newQUsed = visit'[p].qUsed]_vars

\* C21 witness: a registered visitor whose q_used is above the limit was
\* answered.
C21_Witness ==
  \E p \in Procs :
    /\ visit[p].pc = "done" /\ visit[p].resp = "200"
    /\ visit[p].registered /\ visit[p].qUsed > FreeQuestions - 1
    /\ visit[p].qUsed = MaxQUsed

\* The rows of a cache table that hold the hash of a question.
Entries(cache, question) == {r \in cache : r.question_hash = hashQuestion(question)}

\* A step in which saveCachedAnswer of slot p completes without error.
Stores(p) ==
  /\ visit[p].pc = "save_cached" /\ visit'[p].pc = "done"
  /\ chat_cache' # chat_cache

\* C22: a store leaves exactly one row for the hash of its question; when a
\* row was there already (the question was stored before) the store adds one
\* to its hit counter and writes the answer, instead of starting a new row at
\* the initial count.
C22_StoreTwiceOneRowCountIncremented ==
  [][\A p \in Procs : Stores(p) =>
       LET before == Entries(chat_cache, visit[p].message)
           after == Entries(chat_cache', visit[p].message)
       IN /\ Cardinality(after) = 1
          /\ Row(after).answer_text = visit[p].answer
          /\ before = {} => Row(after).hit_count = 1
          /\ before # {} =>
               /\ Cardinality(before) = 1
               /\ Row(after).hit_count = Row(before).hit_count + 1]_vars

\* C22 witness: both slots stored the same answer to the same question, and
\* the one row counts two.
C22_Witness ==
  /\ \A p \in Procs :
       /\ visit[p].pc = "done" /\ visit[p].resp = "200" /\ ~visit[p].fromCache
       /\ visit[p].answer = "r1"
       /\ hashQuestion(visit[p].message) = <<"q", " ", "q">>
  /\ \E r \in chat_cache :
       /\ chat_cache = {r}
       /\ r.hit_count = 2 /\ r.answer_text = "r1"

\* The words of a text, in lower case: what is left of it when case and the
\* amount and kind of whitespace are disregarded.
RECURSIVE SplitWords(_, _, _)
SplitWords(s, word, words) ==
  LET closed == IF word = <<>> THEN words ELSE Append(words, word)
  IN IF s = <<>> THEN closed
     ELSE IF Head(s) \in Whitespace THEN SplitWords(Tail(s), <<>>, closed)
     ELSE SplitWords(Tail(s), Append(word, IF Head(s) = "Q" THEN "q" ELSE Head(s)), words)

Words(s) == SplitWords(s, <<>>, <<>>)

\* The texts that differ from the question of slot p in case and whitespace only.
Variants(p) == {t \in Texts : Words(t) = Words(visit[p].message)}

\* A step in which getCachedAnswer of slot p returns from its SELECT.
LooksUp(p) == visit[p].pc = "get_cached" /\ visit'[p].lookup \in {"hit", "miss"}

\* C23: texts that differ in case and whitespace only have the same hash; a
\* lookup finds an entry exactly if the lookup of every variant would, and
\* right after a store the lookup of every variant finds the stored answer.
C23_VariantsShareCacheEntry ==
  [][\A p \in Procs :
       /\ LooksUp(p) => \A t \in Variants(p) :
            /\ hashQuestion(t) = hashQuestion(visit[p].message)
            /\ visit'[p].lookup = "hit" <=> CacheHit(t) # {}
       /\ Stores(p) => \A t \in Variants(p) :
            /\ hashQuestion(t) = hashQuestion(visit[p].message)
            /\ \E r \in CacheHit(t)' : r.answer_text = visit[p].answer]_vars

\* C23 witness: one visitor's question was answered by the assistant and
\* stored, and a variant of it with a tab in it was answered from the cache.
C23_Witness ==
  \E p, q \in Procs :
    /\ visit[p].pc = "done" /\ visit[p].resp = "200" /\ ~visit[p].fromCache
    /\ visit[q].pc = "done" /\ visit[q].resp = "200" /\ visit[q].fromCache
    /\ visit[p].message = <<"q", " ", "q">>
    /\ visit[q].message = <<"Q", "\t", "q">>
    /\ visit[q].answer = visit[p].answer

\* A step in which getCachedAnswer of slot p returns the entry it found.
ReturnsHit(p) == visit[p].pc = "cache_touch" /\ visit'[p].pc = "done"

LookupErrors(p) ==
  /\ visit[p].pc \in {"get_cached", "cache_touch"}
  /\ visit'[p].lookup = "error"

\* A step in which saveCachedAnswer of slot p ends in its catch.
StoreErrors(p) ==
  /\ visit[p].pc = "save_cached" /\ visit'[p].pc # "save_cached"
  /\ chat_cache' = chat_cache

\* C25: a lookup that errors leaves the request where a miss leaves it,
\* about to call the chat completion; a store that errors after the
\* completion answered leaves the request with the 200 response that
\* carries the answer.
C25_CacheFailureDoesNotBlock ==
  [][\A p \in Procs :
       /\ LookupErrors(p) =>
            /\ visit'[p].pc = "openai"
            /\ visit'[p].resp = NULL
            /\ chat_cache' = chat_cache
       /\ StoreErrors(p) =>
            /\ visit'[p].pc = "done" /\ visit'[p].resp = "200"
            /\ visit'[p].answer = visit[p].answer /\ visit'[p].answer \in Answers
            /\ ~visit'[p].fromCache]_vars

\* C25 witness: the first request ever was answered although nothing is in
\* the cache.
C25_Witness ==
  \E p \in Procs :
    /\ started = 1 /\ chat_cache = {}
    /\ visit[p].pc = "done" /\ visit[p].resp = "200" /\ visit[p].answer \in Answers

\* A step in which slot p takes up a request, with a question in its
\* message, whose rate limiter is not configured or cannot be reached.
LimiterDownRequest(p) ==
  /\ visit[p].pc = "idle" /\ visit'[p].pc # "idle"
  /\ trim(visit'[p].message) # <<>>
  /\ visit'[p].limiter \in {"unconfigured", "unreachable"}

\* C26: without a limiter, or with one whose limit call throws,
\* checkRateLimit reports success and the request goes on to the quota test
\* (and from there to the cache lookup or the register prompt) instead of
\* ending with 429 or 500.
C26_RateLimiterFailsOpen ==
  [][\A p \in Procs : LimiterDownRequest(p) =>
       /\ visit'[p].success
       /\ visit'[p].resp \notin {"429", "500"}
       /\ IF QuotaExceeded(visit'[p].registered, visit'[p].qUsed)
            THEN visit'[p].pc = "done" /\ visit'[p].resp = "needSignup"
            ELSE visit'[p].pc = "get_cached"]_vars

\* C26 witness: a request was answered while the backend of the rate limiter
\* was unreachable.
C26_Witness ==
  \E p \in Procs :
    /\ visit[p].pc = "done" /\ visit[p].resp = "200"
    /\ visit[p].limiter = "unreachable"

\* A step of slot p in the polling loop.
Polls(p) == req[p].pc = "poll" /\ req'[p] # req[p]

\* C27: the loop makes at most 60 status checks; a check that reads failed,
\* cancelled or expired, and the 60th check of a run that has not
\* completed, end the request with the generic 500 response and nothing
\* stored; only a completed run leaves the loop for the answer; and a
\* request in the loop always leaves it.
C27_PollingTerminates ==
  /\ [][\A p \in Procs : Polls(p) =>
          /\ req[p].attempts < maxAttempts
          /\ req'[p].attempts <= maxAttempts
          /\ req'[p].pc \in {"poll", "assistant_messages", "done"}
          /\ req'[p].pc = "poll" =>
               /\ req'[p].attempts = req[p].attempts + 1
               /\ req'[p].attempts < maxAttempts
               /\ req'[p].runStatus \notin FailedStatuses \cup {"completed"}
          /\ req'[p].pc = "assistant_messages" => req'[p].runStatus = "completed"
          /\ req'[p].runStatus \in FailedStatuses => req'[p].pc = "done"
          /\ req'[p].attempts = maxAttempts /\ req'[p].runStatus # "completed" =>
               req'[p].pc = "done"
          /\ req'[p].pc = "done" => req'[p].resp = "500" /\ UNCHANGED db]_vars
  /\ \A p \in {Caller} : (req[p].pc = "poll") ~> (req[p].pc # "poll")

\* C27 witness: the request failed after 60 checks of a run still in progress.
C27_Witness ==
  /\ req[Caller].pc = "done" /\ req[Caller].resp = "500"
  /\ req[Caller].attempts = maxAttempts /\ req[Caller].runStatus = "in_progress"

\* The steps inside markPaidSessionFirstMessage and
\* markUnpaidSessionFirstMessage, inside the email capture of the chat
\* (updateUnpaidSessionEmail, moveSessionToUnpaid), and inside
\* markPaidSessionCompleted.
InMarkFirstMessage(p) == req[p].pc = "first_increment"

InEmailCapture(p) ==
  /\ req[p].op = "chat"
  /\ req[p].pc \in {"update_unpaid_email", "move_get_paid", "move_insert", "move_get_msgs",
                     "move_copy"}

InConfirmPayment(p) ==
  \/ req[p].pc = "verify_mark"
  \/ req[p].pc = "idle" /\ req'[p].op = "confirm"

\* C28: no step lowers a counter of session_statistics; first_messages_count
\* changes only in a step of markFirstMessage, emails_collected_count only
\* in a step of the email capture, payments_completed_count only in a step
\* of the payment confirmation, each by one; every other step leaves the
\* three as they were.
C28_CountersChangeOnlyInTheirTransition ==
  [][/\ session_statistics'.first_messages_count # session_statistics.first_messages_count =>
          /\ \E p \in Procs : InMarkFirstMessage(p) /\ req'[p] # req[p]
          /\ session_statistics' =
               [session_statistics EXCEPT !.first_messages_count = @ + 1]
     /\ session_statistics'.emails_collected_count # session_statistics.emails_collected_count =>
          /\ \E p \in Procs : InEmailCapture(p) /\ req'[p] # req[p]
          /\ session_statistics' =
               [session_statistics EXCEPT !.emails_collected_count = @ + 1]
     /\ session_statistics'.payments_completed_count # session_statistics.payments_completed_count =>
          /\ \E p \in Procs : InConfirmPayment(p) /\ req'[p] # req[p]
          /\ session_statistics' =
               [session_statistics EXCEPT !.payments_completed_count = @ + 1]]_vars

\* C28 witness: each of the three counters has been incremented.
C28_Witness ==
  /\ session_statistics.first_messages_count > 0
  /\ session_statistics.emails_collected_count > 0
  /\ session_statistics.payments_completed_count > 0

\* ---- C29

\* The rows of users with an email.
UsersWith(email) == {r \in users : r.email = email}

\* Slot p runs the handler's lookup of the email of its register request.
ChecksEmail(p) == req[p].op = "register" /\ req[p].pc = "register_find"

\* C29: a register request whose email belongs to a user when the handler
\* looks it up is answered 400 'Cet email est déjà utilisé' and adds no
\* row; no row of users is ever removed, a row is added only by a request
\* that is answered 200, and whatever the interleaving of the register
\* requests, users never holds two rows with the same email.
C29_DuplicateEmailRejectedOneRowPerEmail ==
  /\ [](\A e \in Emails : Cardinality(UsersWith(e)) <= 1)
  /\ [][\A p \in Procs :
          /\ ChecksEmail(p) /\ UsersWith(req[p].email) # {} /\ req'[p] # req[p]
               => /\ req'[p].pc = "done" /\ req'[p].resp = "400 duplicate"
                  /\ users' = users
          /\ users \subseteq users'
          /\ (users' # users /\ req'[p] # req[p])
               => req'[p].pc = "done" /\ req'[p].resp = "200"]_vars

\* Two concurrent requests with the same email both passed both lookups: one
\* row exists, one request got 200 and the other 500; and a later request
\* with that email was refused as a duplicate.
C29_Witness ==
  /\ Cardinality(users) = 1
  /\ req[1].op = "register" /\ req[1].pc = "done" /\ req[1].resp = "500"
  /\ req[2].op = "register" /\ req[2].pc = "done" /\ req[2].resp = "400 duplicate"
  /\ started >= 3

\* ---- C30

\* The number of rows of conversation_messages of a session with a role.
MessagesOf(sessionId, role) ==
  Len(SelectSeq(conversation_messages,
                LAMBDA m : m.session_id = sessionId /\ m.role = role))

\* The calls of addConversationMessage on a session that have inserted their
\* user message and not yet updated the session.
Pending(sessionId) ==
  {p \in Procs : /\ req[p].op = "addConversationMessage"
                 /\ req[p].pc = "update_session"
                 /\ req[p].sessionId = sessionId /\ req[p].role = "user"}

\* An admin deletion of the session is between its two statements.
BeingDeleted(sessionId) ==
  \E p \in Procs : /\ req[p].op = "handleDelete" /\ req[p].pc = "delete_session"
                   /\ req[p].sessionId = sessionId

\* Slot p completes a call of addConversationMessage with an assistant message.
AppendsAssistant(p) ==
  /\ req[p].op = "addConversationMessage" /\ req[p].role = "assistant"
  /\ req'[p] # req[p]

\* C30: for every conversation session that is not being deleted,
\* message_count plus the number of calls that have inserted a user message
\* and not yet updated the session equals the number of the session's
\* messages with role 'user'; so once the calls of addConversationMessage
\* have completed, message_count is that number.  A call that appends an
\* assistant message leaves conversation_sessions unchanged.
C30_MessageCountIsUserMessages ==
  /\ [](\A r \in conversation_sessions :
          ~BeingDeleted(r.id) =>
            r.message_count + Cardinality(Pending(r.id)) = MessagesOf(r.id, "user"))
  /\ [][\A p \in Procs :
          AppendsAssistant(p) => conversation_sessions' = conversation_sessions]_vars

\* A session with two user messages and an assistant message, every call
\* completed: message_count is 2.
C30_Witness ==
  /\ \A p \in Procs : req[p].pc = "idle"
  /\ \E r \in conversation_sessions :
       /\ r.message_count = 2
       /\ MessagesOf(r.id, "user") = 2
       /\ MessagesOf(r.id, "assistant") = 1

\* ---- C31

\* The step is the last statement of a call of migrateUnpaidToPaidSession by
\* slot p, markUnpaidSessionAsMoved.
MarksMoved(p) ==
  req[p].op = "migrate" /\ req[p].pc = "migrate_mark" /\ req'[p].resp = "true"

\* Every row of the unpaid log of u is in the paid log of u.
AllCopied(u) ==
  \A i \in 1..Len(unpaid_messages[u]) : Copies(paid_messages[u], unpaid_messages[u][i]) >= 1

\* C31: in migrateUnpaidToPaidSession the unpaid row is marked moved only by
\* the last statement, when the paid row exists and every message of the
\* unpaid log is in the paid log; every other step of the call, a failure
\* included, leaves unpaid_sessions as it is; and every created uuid keeps
\* an authoritative row.
C31_CopyThenMark ==
  /\ [](\A u \in UUIDs : Created(u) => (PaidAuthoritative(u) \/ UnpaidAuthoritative(u)))
  /\ [][\A p \in {Caller} :
          /\ MarksMoved(p)
               => /\ getPaidSession(req[p].uuid) # {}
                  /\ AllCopied(req[p].uuid)
          /\ (req[p].op = "migrate" /\ req'[p] # req[p] /\ ~MarksMoved(p))
               => unpaid_sessions' = unpaid_sessions
          /\ (\E u \in UUIDs : UnpaidAuthoritative(u) /\ ~UnpaidAuthoritative(u)')
               => MarksMoved(p)]_vars

\* A call stopped in its copy loop: the paid log holds a part of the unpaid
\* log and the unpaid row is still not marked.
C31_Witness ==
  /\ req[Caller].op = "migrate" /\ req[Caller].pc = "done" /\ req[Caller].resp = "throws"
  /\ \E u \in UUIDs :
       /\ UnpaidAuthoritative(u)
       /\ ~AllCopied(u)
       /\ \E i \in 1..Len(unpaid_messages[u]) :
            Copies(paid_messages[u], unpaid_messages[u][i]) >= 1

\* ---- C32

\* The (role, content) of the rows of a message log, in the order of the reads
\* (ORDER BY created_at).
RoleContent(log) ==
  LET rows == OrderByCreatedAt(log)
  IN [i \in 1..Len(rows) |-> <<rows[i].role, rows[i].content>>]

\* Slot p returns from a call of moveSessionToUnpaid whose INSERT created the
\* unpaid row.
MoveCompletes(p) ==
  /\ req[p].pc \in {"move_get_msgs", "move_copy"}
  /\ req'[p].pc \notin {"move_get_msgs", "move_copy"}
  /\ ~req[p].conflict

\* C32: when moveSessionToUnpaid returns for a session that had a paid row and
\* no unpaid row, the unpaid log holds the same (role, content) sequence as
\* the paid log, and the paid row is marked as migrated.
C32_CaptureCopiesAndMarksPaidRow ==
  [][\A p \in {Caller} :
       MoveCompletes(p)
       => /\ RoleContent(unpaid_messages'[req[p].uuid]) = RoleContent(paid_messages'[req[p].uuid])
          /\ \A r \in getPaidSession(req[p].uuid)' : PaidSessionMigrated(r)]_vars

\* ---- C33

\* Slot p returns true from a call of migrateUnpaidToPaidSession.
MigrateReturnsTrue(p) ==
  req[p].op = "migrate" /\ req[p].pc # "done" /\ req'[p].pc = "done" /\ req'[p].resp = "true"

\* The unpaid row of u is marked moved.
Moved(u) == \E r \in unpaid_sessions : r.session_uuid = u /\ r.moved_to_paid

Occurrences(log, role, content) ==
  Cardinality({i \in 1..Len(log) : log[i].role = role /\ log[i].content = content})

\* Every message of log1 is in log2, as often at least.
Holds(log2, log1) ==
  \A i \in 1..Len(log1) :
    Occurrences(log1, log1[i].role, log1[i].content)
      <= Occurrences(log2, log1[i].role, log1[i].content)

\* No request is running.
Quiescent == \A p \in Procs : req[p].pc \in {"idle", "done"}

\* C34: once the requests that interleaved have finished, every saved message
\* of a uuid is in the log of its authoritative row (the unpaid row while it
\* is not marked moved, else the paid row); none is only in the other log.
C34_NoMessageLeftInMigratedRow ==
  Quiescent =>
    \A u \in UUIDs :
      IF UnpaidAuthoritative(u)
        THEN Holds(unpaid_messages[u], paid_messages[u])
        ELSE Holds(paid_messages[u], unpaid_messages[u])

\* ---- C35

\* The funnel sessions whose first message has been marked, in either table.
FirstMessageMarked ==
  {u \in UUIDs : \E r \in paid_sessions \cup unpaid_sessions :
                   r.session_uuid = u /\ r.first_message_sent}

\* C35: the first-message counter counts a funnel session at most once
\* across both tables: it never exceeds the number of uuids whose first
\* message is marked, and a call of markUnpaidSessionFirstMessage for a uuid
\* whose paid row is already marked returns without incrementing it.
C35_FirstMessageCountedOncePerSession ==
  /\ [](session_statistics.first_messages_count <= Cardinality(FirstMessageMarked))
  /\ [][\A u \in UUIDs :
          (/\ req[Caller].pc = "idle" /\ req'[Caller].op = "first_unpaid"
           /\ req'[Caller].uuid = u
           /\ \E r \in paid_sessions : r.session_uuid = u /\ r.first_message_sent)
          => req'[Caller].pc = "done"]_vars

\* ---- C36

\* The unpaid log of u is what a capture copied and nothing more: it has the
\* (role, content) sequence of the paid log.
JustCaptured(u) ==
  /\ UnpaidAuthoritative(u)
  /\ RoleContent(unpaid_messages[u]) = RoleContent(paid_messages[u])

\* C36: a call of migrateUnpaidToPaidSession that follows a capture with no
\* message appended in between leaves the (role, content) sequence of the
\* paid log as it was.  Rows of paid_messages are never deleted or updated,
\* so the log after the round trip equals the log before it exactly when no
\* step of the call adds a row.
C36_RoundTripKeepsPaidLog ==
  [][\A u \in UUIDs :
       (/\ req[Caller].op = "migrate" /\ req[Caller].uuid = u
        /\ req'[Caller] # req[Caller]
        /\ JustCaptured(u))
       => RoleContent(paid_messages'[u]) = RoleContent(paid_messages[u])]_vars

\* ---- C37

\* expertise, amount and payment_intent_id of the paid row of u.
PaymentSetupOf(u) == {x \in PaymentSetup : x.session_uuid = u}

\* C37: once a session has paid = TRUE, no step of any request or call
\* changes the expertise, the amount or the payment_intent_id of its row.
C37_PaidSetupFrozen ==
  [][\A u \in UUIDs : IsPaid(u) => PaymentSetupOf(u)' = PaymentSetupOf(u)]_vars

\* ---- C38

\* C38: right after a store of a live answer that completed without error, a
\* lookup of the same question is a hit with that answer, whatever the cache
\* held before, an expired entry of the same hash included.
C38_StoreThenLookupHits ==
  [][\A p \in Procs :
       Stores(p)
       => \E r \in CacheHit(visit[p].message)' : r.answer_text = visit[p].answer]_vars

\* ---- C39

\* The responses the claim lists that carry no answer: the register prompt,
\* the validation error, the rate-limit rejection, the assistant error.
Unanswered == {"needSignup", "400", "429", "500"}

\* C39: for an unregistered visitor, a request that ends in the register
\* prompt, a validation error, a rate-limit rejection or an assistant error
\* sends no q_used cookie (the counter keeps its value); an answered request,
\* from the cache or from the live assistant, sends q_used = previous + 1 and
\* is answered only below the limit; an admitted request at or above the limit
\* gets the register prompt.  From q_used = 0 the counter values 0 and 1 are
\* answered and 2 is prompted: two answers before the register prompt.
C39_QuotaCountsAnsweredQuestions ==
  [][\A p \in Procs :
       Responds(p) /\ ~visit'[p].registered =>
         LET v == visit'[p]
         IN /\ v.resp \in Unanswered \cup {"200"}
            /\ v.resp \in Unanswered => v.newQUsed = NULL
            /\ v.resp = "200" =>
                 /\ v.answer \in Answers
                 /\ v.newQUsed = v.qUsed + 1
                 /\ v.qUsed < FreeQuestions
            /\ v.resp = "needSignup" <=>
                 trim(v.message) # <<>> /\ v.success /\ v.qUsed >= FreeQuestions]_vars

\* C39 witness: an unregistered visitor with q_used = 1 is answered from the
\* cache and sent q_used = 2, while one with q_used = 2 gets the register
\* prompt.
C39_Witness ==
  \E p, q \in Procs :
    /\ visit[p].pc = "done" /\ visit[p].resp = "200" /\ visit[p].fromCache
    /\ ~visit[p].registered /\ visit[p].qUsed = 1 /\ visit[p].newQUsed = FreeQuestions
    /\ visit[q].pc = "done" /\ visit[q].resp = "needSignup"
    /\ ~visit[q].registered /\ visit[q].qUsed = FreeQuestions /\ visit[q].newQUsed = NULL

====
